---- MODULE Spec2Model ----
(***************************************************************************)
(* A model of mlops-cats-dogs: the dataset preprocessing core               *)
(* (src/src/data/preprocess.py, constants from src/src/utils/config.py),    *)
(* the predictor (src/src/inference/predictor.py, checkpoints as written by *)
(* src/src/models/train.py) and the inference service                      *)
(* (src/src/inference/app.py).                                              *)
(*                                                                          *)
(* The specifications share the variables:                                  *)
(*   SpecSplit  split_dataset applied to inputs drawn in its Init, with the *)
(*              process-wide random generator used between the calls;       *)
(*   SpecSave   save_images applied to a file list and file states drawn in *)
(*              its Init;                                                   *)
(*   SpecLoad   load_and_preprocess_image applied to a source and a target  *)
(*              size drawn in its Init;                                     *)
(*   SpecScan   get_image_files applied to a directory drawn in its Init;   *)
(*   SpecCtor   the CatDogPredictor constructor applied to a models/        *)
(*              directory and arguments drawn in its Init;                  *)
(*   SpecPredict predict and predict_batch on a constructed predictor;      *)
(*   SpecApp    the service: startup event, /predict in two steps around    *)
(*              its await, /metrics/json, /health, /model-info;             *)
(*   SpecTrain  the epoch loop of train_model over validation accuracies    *)
(*              drawn in its Init;                                          *)
(*   SpecMonitor calls on one PerformanceMonitor                            *)
(*              (src/src/utils/monitoring.py);                              *)
(*   SpecLog    calls of a coroutine wrapped by log_prediction;             *)
(*   Spec       preprocess_dataset, stage by stage, run after run.          *)
(*                                                                          *)
(* Modelling notes.                                                         *)
(*  - Ratios are exact tenths (8 stands for 0.8).  On that grid the float   *)
(*    test abs(a+b+c-1.0) < 1e-6 is a+b+c = 10, and int(n*r) is the         *)
(*    truncation of n*k/10 for every n below 45 (the first n where the      *)
(*    IEEE double product falls below the exact one is n = 45, r = 1.4).    *)
(*  - random.seed / random.shuffle: the generator is a small linear         *)
(*    congruential one in place of the Mersenne Twister; shuffle is the     *)
(*    Fisher-Yates loop of CPython's random.shuffle.                        *)
(*  - assert statements are executed (the interpreter is not run with -O).  *)
(*  - A class directory of the processed tree holds regular files only, as  *)
(*    save_images leaves it.                                                *)
(*  - Probabilities are exact fractions num/den: softmax is taken with      *)
(*    base 2, which orders and normalises the outputs as base e does.       *)
(*  - Inference times are whole multiples of 0.01 ms, the resolution of     *)
(*    the rounded values the service reports.                               *)
(***************************************************************************)
EXTENDS Integers, Sequences, FiniteSets, TLC

VARIABLES
    \* ---- split_dataset, called directly
    dirExists,   \* whether data_dir exists
    dirList,     \* data_dir's entries in iterdir order
    ratios,      \* <<train, val, test>> in tenths (also the configured ratios)
    seed,        \* the seed argument
    rng,         \* state of the process-wide random generator
    last,        \* outcome of the latest split_dataset call
    ref,         \* outcome of the first split_dataset call
    calls,       \* number of split_dataset calls made
    scans,       \* number of directory scans (iterdir) performed
    drawn,       \* whether other code drew from the generator since the latest call
    lastDrawn,   \* whether it had before the latest call
    \* ---- save_images / load_and_preprocess_image, called directly
    fstat,       \* state of each source path on disk
    flist,       \* the files argument of save_images
    dest,        \* the split directory save_images writes under
    scls,        \* the class_name argument
    saveRes,     \* outcome of the latest save_images call
    loadRes,     \* outcome of the latest load_and_preprocess_image call
    lsrc,        \* state of the path handed to load_and_preprocess_image
    ltarget,     \* the target_size handed to it
    lpix,        \* <<lowest, highest>> 8-bit channel value of the decoded source
    loadPix,     \* <<lowest, highest>> 8-bit numerator of the returned array's values
    \* ---- get_image_files, called directly
    scanExists,  \* whether the directory exists
    scanTree,    \* everything below the directory, in iterdir order
    scanRes,     \* outcome of the latest get_image_files call
    \* ---- CatDogPredictor
    disk,        \* models/: file name -> what the file holds
    pathArg,     \* the model_path argument of the constructor
    deviceArg,   \* the device argument of the constructor
    cudaAvail,   \* torch.cuda.is_available()
    ctorRes,     \* outcome of the latest constructor call
    predictor,   \* the CatDogPredictor object
    batch,       \* the images handed to predict and predict_batch
    predRes,     \* outcome of the latest predict call
    batchRes,    \* outcome of the latest predict_batch call
    \* ---- the inference service (app.py)
    appPc,       \* "init" before the startup event, "up" after it, "down" when it raised
    MODEL_LOADED,          \* gauge
    REQUEST_COUNT,         \* counter, by status label
    INFERENCE_TIME,        \* histogram: number and sum of observations
    PREDICTION_CLASS,      \* counter, by predicted_class label
    request_count,         \* legacy counter
    total_inference_time,  \* legacy sum, in units of 0.01 ms
    inflight,    \* /predict requests suspended at await file.read()
    peak,        \* the most /predict requests that were suspended at once
    badSeen,     \* /predict requests received while loaded whose upload is no
                 \* image/* part or cannot be opened
    nreq,        \* /predict requests received
    served,      \* /predict responses sent, by status code
    okTime,      \* sum of the inference times of the 200 responses
    metricsResp, \* the latest /metrics/json response
    getResp,     \* the latest /health or /model-info response
    \* ---- train_model (train.py)
    trainAccs,   \* the validation accuracy of each epoch, in units of 1/MaxAcc
    trainPc,     \* "loop" during the epochs, then "done" or "failed"
    epoch,       \* the number of epochs completed
    best_val_acc,\* the local variable of train_model
    bestMeta,    \* epoch and val_acc stored in best_model.pt
    bestWrites,  \* the epochs in which best_model.pt was written, in order
    finalWrites, \* how often final_model.pt was written
    \* ---- PerformanceMonitor (monitoring.py)
    monMetrics,  \* self.metrics
    monLast,     \* the latest call on the monitor and its arguments
    monOut,      \* what the latest get_metrics call returned
    monCalls,    \* number of calls made
    \* ---- log_prediction (monitoring.py)
    logFile,     \* the request log, one record per line
    logFunc,     \* what the wrapped function does when called
    logRes,      \* outcome of the latest call of the wrapper
    logCalls,    \* number of calls of the wrapper
    \* ---- the processed tree and preprocess_dataset
    tree,        \* DatasetTree: split -> [exists, dirs: class -> [present, files], stray]
    rawRoot,     \* whether RAW_DATA_DIR exists
    raw,         \* class -> [present, entries]
    pc,          \* position of preprocess_dataset
    err,         \* the exception that ended the run ("" while none)
    cls,         \* index of the class being processed
    files,       \* result of get_image_files for the current class
    stages,      \* stages executed by the current run, in order
    runs,        \* number of runs started
    tree0,       \* the tree as the current run found it
    tree1        \* the tree as the first run left it

splitVars == <<dirExists, dirList, ratios, seed, rng, last, ref, calls, scans, drawn, lastDrawn>>
saveVars  == <<fstat, flist, dest, scls, saveRes, loadRes, lsrc, ltarget, lpix, loadPix>>
scanVars  == <<scanExists, scanTree, scanRes>>
predVars  == <<disk, pathArg, deviceArg, cudaAvail, ctorRes, predictor, batch, predRes, batchRes>>
appVars   == <<appPc, MODEL_LOADED, REQUEST_COUNT, INFERENCE_TIME, PREDICTION_CLASS,
               request_count, total_inference_time, inflight, nreq, served, okTime, metricsResp,
               getResp, peak, badSeen>>
trainVars == <<trainAccs, trainPc, epoch, best_val_acc, bestMeta, bestWrites, finalWrites>>
monVars   == <<monMetrics, monLast, monOut, monCalls>>
logVars   == <<logFile, logFunc, logRes, logCalls>>
moreVars  == <<trainVars, monVars, logVars>>
extVars   == <<scanVars, predVars, appVars, moreVars>>
pipeVars  == <<tree, rawRoot, raw, pc, err, cls, files, stages, runs, tree0, tree1>>
vars == <<splitVars, saveVars, pipeVars, extVars>>

-----------------------------------------------------------------------------
(* Bounds of the model *)

\* most image files in a directory handed to split_dataset
MaxN == 4
\* how far a resampled channel value can leave the source's range
Overshoot == 20
\* most nodes below a directory handed to get_image_files
MaxNodes == 3
\* trained weight sets a checkpoint can hold, numbered 1..MaxWeights
MaxWeights == 2
\* largest output (logit) of the network, outputs are 0..MaxLogit
MaxLogit == 1
\* most images in a list handed to predict_batch
MaxBatch == 2
\* most /predict requests the service receives
MaxRequests == 3
\* longest inference time, in units of 0.01 ms
MaxTime == 1
\* size of the stand-in random generator's state space
RngMod == 16
\* most split_dataset calls in one behaviour
MaxCalls == 2
\* most preprocess_dataset runs in one behaviour
MaxRuns == 2
\* images per class in the end-to-end scenario (the spec's 100, scaled by ten)
ScenarioFiles == 10
\* most files in the list handed to save_images
MaxList == 2
\* largest side of a target size handed to load_and_preprocess_image
MaxSide == 3
\* the most epochs of one training run (args.epochs)
MaxEpochs == 3
\* validation images of a training run; an accuracy is correct / MaxAcc and
\* is kept as the number of correct ones
MaxAcc == 3
\* most calls on one PerformanceMonitor
MaxMonCalls == 3
\* most calls of one function wrapped by log_prediction
MaxLogCalls == 3

(* Program constants *)

NUM_CLASSES == 2
CLASS_NAMES == <<"cat", "dog">>
Classes == {"cat", "dog"}
Splits == {"train", "val", "test"}
\* config.py IMG_HEIGHT, IMG_WIDTH
IMG_HEIGHT == 224
IMG_WIDTH == 224
IMG_SIZE == <<IMG_HEIGHT, IMG_WIDTH>>
\* config.py TRAIN_RATIO, VAL_RATIO, TEST_RATIO, in tenths
DefaultRatios == <<8, 1, 1>>
\* the default seed of split_dataset
DefaultSeed == 42

-----------------------------------------------------------------------------
(* Python helpers *)

\* int(x) of the float x = num/den: truncation toward zero
Trunc(num, den) == IF num >= 0 THEN num \div den ELSE -((-num) \div den)

\* a slice bound as Python normalises it for a list of length n
PyIndex(i, n) ==
    IF i < 0 THEN (IF i + n < 0 THEN 0 ELSE i + n)
    ELSE IF i > n THEN n ELSE i

\* s[lo:hi]
PySlice(s, lo, hi) ==
    LET a == PyIndex(lo, Len(s))
        b == PyIndex(hi, Len(s))
    IN IF a < b THEN SubSeq(s, a + 1, b) ELSE <<>>

\* the elements of a sequence
Range(s) == {s[i] : i \in 1..Len(s)}

-----------------------------------------------------------------------------
(* The process-wide random generator *)

\* random.seed(seed): the generator state depends on the seed alone
RngSeed(sd) == sd % RngMod

\* one draw advances the generator
RngStep(g) == (5 * g + 3) % RngMod

\* random._randbelow(k): a value in 0..k-1 and the advanced generator
randbelow(g, k) == [val |-> RngStep(g) % k, rng |-> RngStep(g)]

\* CPython's shuffle loop, positions i = len-1 .. 1 (here 1-based: len .. 2)
RECURSIVE shuffle_from(_, _, _)
shuffle_from(x, i, g) ==
    IF i < 2 THEN [list |-> x, rng |-> g]
    ELSE LET d == randbelow(g, i)
             j == d.val + 1
             y == [x EXCEPT ![i] = x[j], ![j] = x[i]]
         IN shuffle_from(y, i - 1, d.rng)

\* random.shuffle(x) with the generator in state g
shuffle(x, g) == shuffle_from(x, Len(x), g)

-----------------------------------------------------------------------------
(* Image Scanner *)

\* a directory entry
Entry(name, isFile, suffix) == [name |-> name, isFile |-> isFile, suffix |-> suffix]

exts == {".jpg", ".jpeg", ".png", ".bmp"}

\* str.lower() on the suffixes the model uses
Lower(sfx) ==
    CASE sfx = ".JPG" -> ".jpg"
      [] sfx = ".Png" -> ".png"
      [] sfx = ".JPEG" -> ".jpeg"
      [] sfx = ".BMP" -> ".bmp"
      [] sfx = ".TXT" -> ".txt"
      [] OTHER -> sfx

\* line 80 as a mutant: f.suffix in exts, the case of the suffix kept
get_image_files_case_sensitive(entries) ==
    SelectSeq(entries, LAMBDA f : f.isFile /\ f.suffix \in exts)

\* get_image_files on an existing directory, entries in iterdir order
get_image_files(entries) ==
    SelectSeq(entries, LAMBDA f : f.isFile /\ Lower(f.suffix) \in exts)

\* something below a directory: parent is 0 for a direct child, otherwise the
\* name of the subdirectory that holds it
Node(name, isFile, suffix, parent) ==
    [name |-> name, isFile |-> isFile, suffix |-> suffix, parent |-> parent]

\* directory.iterdir(): the direct children only; a missing directory raises
iterdir(exists, nodes) ==
    IF ~exists THEN [err |-> "FileNotFoundError", entries |-> <<>>]
    ELSE LET top == SelectSeq(nodes, LAMBDA x : x.parent = 0)
         IN [err |-> "",
             entries |-> [i \in 1..Len(top) |-> Entry(top[i].name, top[i].isFile, top[i].suffix)]]

\* get_image_files(directory) on a directory that may be missing
get_image_files_in(exists, nodes) ==
    LET d == iterdir(exists, nodes)
    IN IF d.err # "" THEN [err |-> d.err, files |-> <<>>]
       ELSE [err |-> "", files |-> get_image_files(d.entries)]

-----------------------------------------------------------------------------
(* Deterministic Splitter *)

\* line 58: abs(train_ratio + val_ratio + test_ratio - 1.0) < 1e-6
RatiosValid(r) == r[1] + r[2] + r[3] = 10

\* line 62 as a mutant: the generator is not reseeded
random_seed_omitted(sd, g) == g

\* line 62: random.seed(seed) replaces the process-wide state g
random_seed(sd, g) == RngSeed(sd)

\* the outcome of a call that raised
Raised(e, g, scanned) ==
    [err |-> e, train |-> <<>>, val |-> <<>>, test |-> <<>>, rng |-> g, scanned |-> scanned]

\* lines 60-73: scan, shuffle, cut
split_body(exists, entries, r, sd, g) ==
    IF ~exists THEN Raised("FileNotFoundError", g, 1)
    ELSE LET fs == get_image_files(entries)
             sh == shuffle(fs, random_seed(sd, g))
             n == Len(fs)
             train_end == Trunc(n * r[1], 10)
             val_end == train_end + Trunc(n * r[2], 10)
         IN [err |-> "",
             train |-> PySlice(sh.list, 0, train_end),
             val |-> PySlice(sh.list, train_end, val_end),
             test |-> PySlice(sh.list, val_end, n),
             rng |-> sh.rng,
             scanned |-> 1]

\* split_dataset as a mutant: the ratio check follows the scan
split_dataset_scan_first(exists, entries, r, sd, g) ==
    LET o == split_body(exists, entries, r, sd, g)
    IN IF o.err = "" /\ ~RatiosValid(r) THEN Raised("AssertionError", o.rng, 1) ELSE o

\* split_dataset(data_dir, train_ratio, val_ratio, test_ratio, seed)
split_dataset(exists, entries, r, sd, g) ==
    IF ~RatiosValid(r) THEN Raised("AssertionError", g, 0)
    ELSE split_body(exists, entries, r, sd, g)

-----------------------------------------------------------------------------
(* Image Normalizer *)

\* what can be at a source path
FileStates == {"ok", "missing", "unreadable", "corrupt", "truncated"}

\* Image.open(image_path): the exception it raises, "" when it returns
image_open(st) ==
    CASE st = "missing" -> "FileNotFoundError"
      [] st = "unreadable" -> "PermissionError"
      [] st = "corrupt" -> "UnidentifiedImageError"
      [] OTHER -> ""

\* .convert("RGB") loads the pixel data: a truncated file fails here
convert_rgb(st) == IF st = "truncated" THEN "OSError" ELSE ""

\* img.resize(target_size, LANCZOS): PIL wants a positive (width, height)
resize(target) == IF target[1] <= 0 \/ target[2] <= 0 THEN "ValueError" ELSE ""

\* lines 40-42: the first exception of the try block, "" when it completes
try_block(st, target) ==
    IF image_open(st) # "" THEN image_open(st)
    ELSE IF convert_rgb(st) # "" THEN convert_rgb(st)
    ELSE resize(target)

\* line 43 as a mutant: except FileNotFoundError
caught_only_not_found(e) == e = "FileNotFoundError"

\* line 43: except Exception catches every exception of the try block
caught(e) ==
    e \in {"FileNotFoundError", "PermissionError", "UnidentifiedImageError",
           "OSError", "ValueError"}

\* an 8-bit channel value: resampling results are clipped to 0..255
clip8(v) == IF v < 0 THEN 0 ELSE IF v > 255 THEN 255 ELSE v

\* line 41: LANCZOS has negative lobes, so a resampled value can leave the
\* source's range by up to Overshoot before it is clipped
lanczos8(pix) == <<clip8(pix[1] - Overshoot), clip8(pix[2] + Overshoot)>>

\* lines 40-42: the lowest and highest value of the array, as numerators of
\* x / 255.0, for a source whose channel values span pix
array_values(pix) == lanczos8(pix)

\* load_and_preprocess_image(image_path, target_size): PIL reads target_size as
\* (width, height), and np.asarray gives (height, width, 3)
load_and_preprocess_image(st, target) ==
    LET e == try_block(st, target)
    IN IF e = "" THEN [kind |-> "array", shape |-> <<target[2], target[1], 3>>, raised |-> ""]
       ELSE IF caught(e) THEN [kind |-> "None", shape |-> <<>>, raised |-> ""]
       ELSE [kind |-> "raise", shape |-> <<>>, raised |-> e]

-----------------------------------------------------------------------------
(* Dataset Materializer *)

\* a class directory of the processed tree
AbsentDir == [present |-> FALSE, files |-> {}]
DirWith(fs) == [present |-> TRUE, files |-> fs]

\* line 95 as a mutant: break, the rest of the list is dropped
after_failure_break(rest, acc) == acc

\* line 95: continue, the loop goes on with the rest of the list
after_failure(rest, acc) == rest

\* lines 92-98: the loop over files, from position i
RECURSIVE save_loop(_, _, _, _)
save_loop(fl, i, stat, acc) ==
    IF i > Len(fl) THEN acc
    ELSE LET img_array == load_and_preprocess_image(stat[fl[i]], IMG_SIZE)
             acc1 == [acc EXCEPT !.attempted = Append(@, fl[i])]
             acc2 == [acc1 EXCEPT !.files = @ \cup {fl[i].name},
                                  !.writes = Append(@, fl[i].name)]
         IN IF img_array.kind = "raise" THEN [acc1 EXCEPT !.raised = img_array.raised]
            ELSE IF img_array.kind = "None"
                 THEN after_failure(save_loop(fl, i + 1, stat, acc1), acc1)
            ELSE save_loop(fl, i + 1, stat, acc2)

\* save_images(files, dest_dir, class_name) on the class directory d:
\* mkdir(parents=True, exist_ok=True), then the loop
save_images(fl, stat, d) ==
    save_loop(fl, 1, stat,
              [present |-> TRUE, files |-> d.files, writes |-> <<>>,
               attempted |-> <<>>, raised |-> ""])

-----------------------------------------------------------------------------
(* Preprocessing Orchestrator *)

NoErr == [type |-> "", what |-> ""]
Error(t, w) == [type |-> t, what |-> w]

\* one split directory of the processed tree
AbsentSplit == [exists |-> FALSE, dirs |-> [c \in Classes |-> AbsentDir], stray |-> FALSE]

\* lines 117-123 as a mutant: the loop leaves TEST_DIR out
clean_tree_skip_test(t) ==
    [s \in Splits |->
        IF t[s].exists /\ s # "test"
        THEN [t[s] EXCEPT !.dirs = [c \in Classes |-> AbsentDir]]
        ELSE t[s]]

\* lines 117-123: in every split directory that exists, every item that is a
\* directory loses its files and is removed; other items stay
clean_tree(t) ==
    [s \in Splits |->
        IF t[s].exists
        THEN [t[s] EXCEPT !.dirs = [c \in Classes |-> AbsentDir]]
        ELSE t[s]]

\* line 157: count of {split}/{cls}, 0 when the directory is missing
count(t, s, c) == IF t[s].dirs[c].present THEN Cardinality(t[s].dirs[c].files) ELSE 0

\* lines 153-159: the split/class pairs in the order the sanity check visits them
CheckOrder ==
    << <<"train", "cat">>, <<"train", "dog">>, <<"val", "cat">>,
       <<"val", "dog">>, <<"test", "cat">>, <<"test", "dog">> >>

\* lines 153-159: the error of the first failing assert, NoErr when all pass
RECURSIVE sanity_from(_, _)
sanity_from(t, i) ==
    IF i > Len(CheckOrder) THEN NoErr
    ELSE IF count(t, CheckOrder[i][1], CheckOrder[i][2]) > 0 THEN sanity_from(t, i + 1)
    ELSE Error("AssertionError", CheckOrder[i])
sanity_checks(t) == sanity_from(t, 1)

\* line 108
RawCheck ==
    /\ pc = "start"
    /\ stages' = Append(stages, "start")
    /\ IF rawRoot
       THEN pc' = "clean" /\ err' = err
       ELSE pc' = "failed" /\ err' = Error("FileNotFoundError", <<"raw">>)
    /\ UNCHANGED <<tree, rawRoot, raw, cls, files, runs, tree0, tree1>>
    /\ UNCHANGED <<splitVars, saveVars, extVars>>

\* lines 116-123
Clean ==
    /\ pc = "clean"
    /\ tree' = clean_tree(tree)
    /\ stages' = Append(stages, "clean")
    /\ pc' = "class"
    /\ cls' = 1
    /\ UNCHANGED <<rawRoot, raw, err, files, runs, tree0, tree1>>
    /\ UNCHANGED <<splitVars, saveVars, extVars>>

\* lines 127-129
ClassCheck ==
    /\ pc = "class"
    /\ IF raw[CLASS_NAMES[cls]].present
       THEN pc' = "scan" /\ err' = err
       ELSE pc' = "failed" /\ err' = Error("FileNotFoundError", <<"raw", CLASS_NAMES[cls]>>)
    /\ UNCHANGED <<tree, rawRoot, raw, cls, files, stages, runs, tree0, tree1>>
    /\ UNCHANGED <<splitVars, saveVars, extVars>>

\* line 131
Scan ==
    /\ pc = "scan"
    /\ files' = get_image_files(raw[CLASS_NAMES[cls]].entries)
    /\ scans' = scans + 1
    /\ stages' = Append(stages, "scan")
    /\ pc' = "split"
    /\ UNCHANGED <<tree, rawRoot, raw, err, cls, runs, tree0, tree1>>
    /\ UNCHANGED <<dirExists, dirList, ratios, seed, rng, last, ref, calls, drawn, lastDrawn>>
    /\ UNCHANGED <<saveVars, extVars>>

\* line 132 as a mutant: the failure is followed by a global rollback that
\* puts the processed tree back as the run found it
SplitFiles_rollback ==
    /\ pc = "split"
    /\ pc' = "failed"
    /\ err' = Error("NameError", <<"split_files">>)
    /\ tree' = IF runs = 1 THEN tree0 ELSE tree1
    /\ UNCHANGED <<rawRoot, raw, cls, files, stages, runs, tree0, tree1>>
    /\ UNCHANGED <<splitVars, saveVars, extVars>>

\* line 132 as a mutant: the failed split sends the run back to the scan of
\* the class, once
SplitFiles_retry ==
    /\ pc = "split"
    /\ IF Len(stages) < 4
       THEN pc' = "scan" /\ err' = err
       ELSE pc' = "failed" /\ err' = Error("NameError", <<"split_files">>)
    /\ UNCHANGED <<tree, rawRoot, raw, cls, files, stages, runs, tree0, tree1>>
    /\ UNCHANGED <<splitVars, saveVars, extVars>>

\* line 132: split_files is defined nowhere in the module (it defines
\* split_dataset and imports only the names of lines 18-28), so evaluating the
\* name raises NameError; lines 139-162 are never reached
SplitFiles ==
    /\ pc = "split"
    /\ pc' = "failed"
    /\ err' = Error("NameError", <<"split_files">>)
    /\ UNCHANGED <<tree, rawRoot, raw, cls, files, stages, runs, tree0, tree1>>
    /\ UNCHANGED <<splitVars, saveVars, extVars>>

\* line 166: preprocess_dataset() is invoked again on the same raw data
Rerun ==
    /\ pc \in {"failed", "done"}
    /\ runs < MaxRuns
    /\ runs' = runs + 1
    /\ tree1' = IF runs = 1 THEN tree ELSE tree1
    /\ pc' = "start"
    /\ err' = NoErr
    /\ stages' = <<>>
    /\ files' = <<>>
    /\ cls' = 1
    /\ UNCHANGED <<tree, rawRoot, raw, tree0>>
    /\ UNCHANGED <<splitVars, saveVars, extVars>>

-----------------------------------------------------------------------------
(* Checkpoints and the CatDogPredictor constructor *)

\* what a file of models/ can hold
NoFile == [fmt |-> "missing", state |-> 0]
Garbage == [fmt |-> "garbage", state |-> 0]
OtherDict == [fmt |-> "dict_other", state |-> 0]

\* train.py lines 285-291: best_model.pt is a dict with the key model_state_dict
save_best(w) == [fmt |-> "dict", state |-> w]

\* train.py line 331: final_model.pt is the bare state mapping
save_final(w) == [fmt |-> "state", state |-> w]

\* line 36: get_model(): a fresh network, untrained (weights 0), in training mode
get_model == [weights |-> 0, training |-> TRUE]

\* lines 30-33
torch_device(dev, cuda) == IF dev = "None" THEN (IF cuda THEN "cuda" ELSE "cpu") ELSE dev

\* line 45: torch.load: a file that is no checkpoint raises
torch_load(f) ==
    IF f.fmt = "garbage" THEN [raised |-> "UnpicklingError", value |-> f]
    ELSE [raised |-> "", value |-> f]

\* lines 48-51 as a mutant: the checkpoint is always loaded directly
state_to_load_direct(ckpt) == ckpt

\* lines 48-51: a dict with the key model_state_dict is unwrapped, anything
\* else is handed to load_state_dict as it is
state_to_load(ckpt) ==
    IF ckpt.fmt = "dict" THEN [fmt |-> "state", state |-> ckpt.state] ELSE ckpt

\* model.load_state_dict(sd): only a state mapping of the network loads
load_state_dict(model, sd) ==
    IF sd.fmt = "state" THEN [raised |-> "", model |-> [model EXCEPT !.weights = sd.state]]
    ELSE [raised |-> "RuntimeError", model |-> model]

\* line 54: model.eval()
model_eval(model) == [model EXCEPT !.training = FALSE]

NoPredictor == [loaded |-> FALSE, model |-> get_model, device |-> ""]

\* CatDogPredictor.__init__(model_path, device) with models/ holding dsk:
\* the exception raised ("" when none), the number of torch.load calls, and
\* the object
CatDogPredictor_init(model_path, dev, cuda, dsk) ==
    LET path == IF model_path = "None" THEN "best_model.pt" ELSE model_path
        failed(e, n) == [raised |-> e, loads |-> n, predictor |-> NoPredictor]
    IN IF dsk[path].fmt = "missing" THEN failed("FileNotFoundError", 0)
       ELSE LET checkpoint == torch_load(dsk[path])
            IN IF checkpoint.raised # "" THEN failed(checkpoint.raised, 1)
               ELSE LET ld == load_state_dict(get_model, state_to_load(checkpoint.value))
                    IN IF ld.raised # "" THEN failed(ld.raised, 1)
                       ELSE [raised |-> "", loads |-> 1,
                             predictor |-> [loaded |-> TRUE, model |-> model_eval(ld.model),
                                            device |-> torch_device(dev, cuda)]]

-----------------------------------------------------------------------------
(* CatDogPredictor.predict and predict_batch *)

\* an image handed to predict: what kind of object it is and the outputs the
\* network computes for it
Image(kind, logits) == [kind |-> kind, logits |-> logits]

\* lines 72-79: the exception preprocess_image raises, "" when it returns
preprocess_image(kind) ==
    CASE kind = "missing_path" -> "FileNotFoundError"
      [] kind = "unsupported" -> "ValueError"
      [] kind = "truncated" -> "OSError"
      [] OTHER -> ""

RECURSIVE SeqSum(_)
SeqSum(q) == IF q = <<>> THEN 0 ELSE Head(q) + SeqSum(Tail(q))

\* line 107: torch.softmax(outputs, dim=1), with base 2 in place of e so that
\* probabilities are exact fractions num/den
softmax(outputs) ==
    LET w == [i \in 1..Len(outputs) |-> 2 ^ outputs[i]]
    IN [i \in 1..Len(outputs) |-> [num |-> w[i], den |-> SeqSum(w)]]

\* line 108 as a mutant: the index of the smallest value
argmin(P) ==
    (CHOOSE i \in 1..Len(P) :
        /\ \A j \in 1..Len(P) : P[j].num >= P[i].num
        /\ \A j \in 1..(i - 1) : P[j].num > P[i].num) - 1

\* line 108: torch.argmax: the 0-based index of the first maximal value
argmax(P) ==
    (CHOOSE i \in 1..Len(P) :
        /\ \A j \in 1..Len(P) : P[j].num <= P[i].num
        /\ \A j \in 1..(i - 1) : P[j].num < P[i].num) - 1

NoResult == [predicted_class |-> "", confidence |-> [num |-> 0, den |-> 1], class_index |-> -1]

\* predict(image_input, return_probs)
predict(image, return_probs) ==
    IF preprocess_image(image.kind) # ""
    THEN [raised |-> preprocess_image(image.kind), result |-> NoResult]
    ELSE LET probabilities == softmax(image.logits)
             predicted_class_idx == argmax(probabilities)
             confidence == probabilities[predicted_class_idx + 1]
             predicted_class == CLASS_NAMES[predicted_class_idx + 1]
             names == {CLASS_NAMES[i] : i \in 1..Len(CLASS_NAMES)}
         IN [raised |-> "",
             result |->
               IF return_probs
               THEN [predicted_class |-> predicted_class, confidence |-> confidence,
                     class_index |-> predicted_class_idx,
                     probabilities |->
                        [c \in names |->
                            probabilities[CHOOSE i \in 1..Len(CLASS_NAMES) : CLASS_NAMES[i] = c]]]
               ELSE [predicted_class |-> predicted_class, confidence |-> confidence,
                     class_index |-> predicted_class_idx]]

\* line 140 as a mutant: results.insert(0, result)
insert_first(results, result) == <<result>> \o results

\* line 140: results.append(result)
append_result(results, result) == Append(results, result)

\* lines 138-140: the loop from position i; an exception of predict leaves it
RECURSIVE batch_loop(_, _, _)
batch_loop(image_inputs, i, results) ==
    IF i > Len(image_inputs) THEN [raised |-> "", results |-> results]
    ELSE LET o == predict(image_inputs[i], TRUE)
         IN IF o.raised # "" THEN [raised |-> o.raised, results |-> <<>>]
            ELSE batch_loop(image_inputs, i + 1, append_result(results, o.result))

\* predict_batch(image_inputs)
predict_batch(image_inputs) == batch_loop(image_inputs, 1, <<>>)

-----------------------------------------------------------------------------
(* The inference service *)

StatusCodes == {200, 400, 500, 503}

\* an uploaded file: its content type ("image" for image/*, "none" when the
\* part carries none), what its bytes are, and the outputs the network
\* computes for the image
Upload(ctype, body, logits) == [ctype |-> ctype, body |-> body, logits |-> logits]

\* lines 71-75 as a mutant: no fallback to final_model.pt
startup_model_path_best_only(dsk) == "best_model.pt"

\* lines 71-75: best_model.pt when it exists, otherwise final_model.pt
startup_model_path(dsk) ==
    IF dsk["best_model.pt"].fmt # "missing" THEN "best_model.pt" ELSE "final_model.pt"

\* line 136: Image.open(io.BytesIO(contents)) reads the header only
open_upload(u) == IF u.body = "garbage" THEN "UnidentifiedImageError" ELSE ""

\* the PIL image handed to predictor.predict
upload_image(u) == Image(IF u.body = "truncated" THEN "truncated" ELSE "pil", u.logits)

\* round(x, 2) of a / b expressed in hundredths: the nearest integer, ties to even
RoundDiv(a, b) ==
    LET q == a \div b
        r == a % b
    IN IF 2 * r < b THEN q
       ELSE IF 2 * r > b THEN q + 1
       ELSE IF q % 2 = 0 THEN q ELSE q + 1

\* lines 127-131 as a mutant: the content type is checked before the predictor
begin_outcomes_content_first(loaded, u) ==
    IF u.ctype = "none" THEN {400, 500}
    ELSE IF u.ctype # "image" THEN {400}
    ELSE IF ~loaded THEN {503}
    ELSE {0}

\* lines 127-131: the status codes /predict can answer with before it reads
\* the upload, 0 for going on. An upload part without content type has
\* content_type "" on older Starlette releases (400) and None on newer ones,
\* where line 130 raises AttributeError outside any try (500, no counter
\* touched); the repository pins no release
begin_outcomes(loaded, u) ==
    IF ~loaded THEN {503}
    ELSE IF u.ctype = "none" THEN {400, 500}
    ELSE IF u.ctype # "image" THEN {400}
    ELSE {0}

\* lines 107-120 as a mutant: /health answers healthy whatever the predictor
health_check_always_healthy(p) ==
    [endpoint |-> "health", loaded |-> p.loaded, status |-> 200,
     body |-> [status |-> "healthy", model_loaded |-> TRUE]]

\* lines 107-120: /health
health_check(p) ==
    IF ~p.loaded
    THEN [endpoint |-> "health", loaded |-> FALSE, status |-> 503,
          body |-> [status |-> "unhealthy", message |-> "Model not loaded"]]
    ELSE [endpoint |-> "health", loaded |-> TRUE, status |-> 200,
          body |-> [status |-> "healthy", model_loaded |-> TRUE]]

\* lines 204-212: /model-info
model_info(p) ==
    IF ~p.loaded
    THEN [endpoint |-> "model-info", loaded |-> FALSE, status |-> 503,
          body |-> [detail |-> "Model not loaded"]]
    ELSE [endpoint |-> "model-info", loaded |-> TRUE, status |-> 200,
          body |-> [model_type |-> "Custom CNN", device |-> p.device]]

\* line 153 as a mutant: the increment is lost when other requests are
\* suspended, as it would be were the global read before an await and written
\* after it
next_request_count_lost(rc, others) == IF others > 0 THEN rc ELSE rc + 1

\* line 153: request_count += 1 reads and writes the global with no await in
\* between, whatever the number of other requests suspended
next_request_count(rc, others) == rc + 1

\* lines 167-170 as a mutant: the failed prediction is counted as a request
request_count_counted_on_error(rc) == rc + 1

\* lines 167-170: the except branch leaves the legacy counters alone
request_count_on_error(rc) == rc

\* lines 187-196: the body of the /metrics/json response, times in 0.01 ms
metrics_json(rc, total, p) ==
    [total_requests |-> rc,
     average_inference_time_ms |-> IF rc > 0 THEN RoundDiv(total, rc) ELSE 0,
     total_inference_time_s |-> RoundDiv(total, 1000),
     model_loaded |-> p.loaded]

NoMetrics == [called |-> FALSE, body |-> metrics_json(0, 0, NoPredictor)]

-----------------------------------------------------------------------------
(* train_model: the epoch loop and the checkpoints *)

\* train.py line 282 as a mutant: a tie saves a new best model too
improved_or_equal(val_acc, best) == val_acc >= best

\* train.py line 282: if val_acc > best_val_acc
improved(val_acc, best) == val_acc > best

-----------------------------------------------------------------------------
(* PerformanceMonitor *)

\* monitoring.py lines 69-77 and 132-140: the metrics of a new or reset monitor
ZeroMetrics ==
    [request_count |-> 0, total_inference_time |-> 0, errors |-> 0,
     predictions |-> [c \in Classes |-> 0]]

\* a quotient num / den kept exact; 0 is 0 / 1
ZeroRate == [num |-> 0, den |-> 1]

\* lines 89-96 as a mutant: the class is counted whether or not the request
\* succeeded
record_request_counts_failed_class(m, inference_time, predicted_class, success) ==
    [request_count |-> m.request_count + 1,
     total_inference_time |-> m.total_inference_time + inference_time,
     errors |-> IF ~success THEN m.errors + 1 ELSE m.errors,
     predictions |-> IF predicted_class \in DOMAIN m.predictions
                     THEN [m.predictions EXCEPT ![predicted_class] = @ + 1]
                     ELSE m.predictions]

\* lines 80-96: PerformanceMonitor.record_request
record_request(m, inference_time, predicted_class, success) ==
    [request_count |-> m.request_count + 1,
     total_inference_time |-> m.total_inference_time + inference_time,
     errors |-> IF ~success THEN m.errors + 1 ELSE m.errors,
     predictions |-> IF success /\ predicted_class \in DOMAIN m.predictions
                     THEN [m.predictions EXCEPT ![predicted_class] = @ + 1]
                     ELSE m.predictions]

\* lines 98-119: PerformanceMonitor.get_metrics
get_metrics(m) ==
    [called |-> TRUE, metrics |-> m,
     average_inference_time |->
         IF m.request_count > 0
         THEN [num |-> m.total_inference_time, den |-> m.request_count] ELSE ZeroRate,
     error_rate |->
         IF m.request_count > 0
         THEN [num |-> m.errors, den |-> m.request_count] ELSE ZeroRate]

\* lines 128-140: PerformanceMonitor.reset_metrics
reset_metrics(m) == ZeroMetrics

-----------------------------------------------------------------------------
(* RequestLogger and log_prediction *)

\* what the wrapped coroutine can hand back: a dict with both keys, a dict
\* without confidence, a dict whose predicted_class json cannot encode, a
\* value that is no dict, an exception, a cancellation
LogFuncs == {"full", "no_confidence", "unserializable", "not_a_dict", "raises", "cancelled"}

NoLogResult == [kind |-> "", predicted_class |-> "", confidence |-> ""]

\* line 153: await func(*args, **kwargs)
await_func(f, c) ==
    CASE f = "full" ->
           [raised |-> "", result |-> [kind |-> "dict", predicted_class |-> c, confidence |-> "0.9"]]
      [] f = "no_confidence" ->
           [raised |-> "", result |-> [kind |-> "dict", predicted_class |-> c, confidence |-> "None"]]
      [] f = "unserializable" ->
           [raised |-> "", result |-> [kind |-> "dict", predicted_class |-> "bytes", confidence |-> "0.9"]]
      [] f = "not_a_dict" ->
           [raised |-> "", result |-> [kind |-> "list", predicted_class |-> c, confidence |-> ""]]
      [] f = "raises" -> [raised |-> "ValueError", result |-> NoLogResult]
      [] OTHER -> [raised |-> "CancelledError", result |-> NoLogResult]

\* lines 157-163: the record of a call that returned
success_record(r) ==
    [kind |-> "success", predicted_class |-> r.predicted_class,
     confidence |-> r.confidence, error |-> ""]

\* lines 178-183: the record of a call that raised
failure_record(e) ==
    [kind |-> "failure", predicted_class |-> "", confidence |-> "", error |-> e]

\* lines 57-60: json.dump writes the record piece by piece; what is in the
\* file when a value cannot be encoded: the line up to that value, no newline
partial_record == [kind |-> "partial", predicted_class |-> "", confidence |-> "", error |-> ""]

\* the exceptions `except Exception` does not catch
BaseOnly == {"CancelledError"}

\* lines 148-187: the wrapper; added is what the call appends to the log file
log_prediction(f, c) ==
    LET o == await_func(f, c)
        r == o.result
        fails(e, before) ==
            [raised |-> e, result |-> NoLogResult, added |-> before \o <<failure_record(e)>>]
    IN IF o.raised \in BaseOnly
       THEN [raised |-> o.raised, result |-> NoLogResult, added |-> <<>>]
       ELSE IF o.raised # "" THEN fails(o.raised, <<>>)
       \* lines 160-161: result.get
       ELSE IF r.kind # "dict" THEN fails("AttributeError", <<>>)
       \* line 164: json.dump
       ELSE IF r.predicted_class = "bytes" THEN fails("TypeError", <<partial_record>>)
       \* lines 166-170: the format :.4f of the confidence
       ELSE IF r.confidence = "None" THEN fails("TypeError", <<success_record(r)>>)
       ELSE [raised |-> "", result |-> r, added |-> <<success_record(r)>>]

-----------------------------------------------------------------------------
(* Inputs *)

\* a directory's entries: n image files (upper- and lower-case suffixes), in
\* ascending or descending order, after a subdirectory named like an image and
\* a text file when junk
Listing(n, rev, junk) ==
    (IF junk THEN <<Entry(0, FALSE, ".jpg"), Entry(-1, TRUE, ".txt")>> ELSE <<>>)
    \o [i \in 1..n |->
          Entry(IF rev THEN n + 1 - i ELSE i, TRUE, IF i % 2 = 0 THEN ".JPG" ELSE ".jpg")]

DirListings == {Listing(n, rev, junk) : n \in 0..MaxN, rev \in BOOLEAN, junk \in BOOLEAN}

\* ratios in tenths, some negative or above 1, summing to 1 or to 1.1
RatioTenths == {-5, 0, 1, 3, 5, 8, 10, 12}
RatioTriples ==
    {t \in RatioTenths \X RatioTenths \X RatioTenths : t[1] + t[2] + t[3] \in {10, 11}}

Seeds == {DefaultSeed, 7}

\* source paths: raw/{dir}/{name}; two of them share a file name
Paths == {[dir |-> "cat", name |-> 1], [dir |-> "cat", name |-> 2], [dir |-> "dog", name |-> 1]}

RECURSIVE ListsUpTo(_)
ListsUpTo(n) ==
    IF n = 0 THEN {<<>>}
    ELSE ListsUpTo(n - 1) \cup {Append(l, p) : l \in {m \in ListsUpTo(n - 1) : Len(m) = n - 1}, p \in Paths}

Targets == ((0..MaxSide) \X (0..MaxSide)) \cup {IMG_SIZE}

\* lowest and highest channel value of a decoded source
PixelRanges == {<<0, 0>>, <<0, 255>>, <<100, 200>>, <<255, 255>>}

\* what can lie below a directory: image files with lower- and upper-case
\* suffixes, a subdirectory named like an image with an image inside it,
\* other files
NodeChoices ==
    { Node(1, TRUE, ".jpg", 0), Node(2, TRUE, ".JPG", 0), Node(3, TRUE, ".JPEG", 0),
      Node(4, TRUE, ".Png", 0), Node(5, TRUE, ".BMP", 0), Node(6, FALSE, ".jpg", 0),
      Node(7, TRUE, ".png", 6), Node(8, TRUE, ".TXT", 0), Node(9, TRUE, "", 0),
      Node(10, TRUE, ".gif", 0), Node(11, FALSE, "", 0) }

RECURSIVE NodeListsUpTo(_)
NodeListsUpTo(n) ==
    IF n = 0 THEN {<<>>}
    ELSE NodeListsUpTo(n - 1) \cup
         {Append(l, x) : l \in {m \in NodeListsUpTo(n - 1) : Len(m) = n - 1},
                         x \in NodeChoices}

\* the lists a file system can hold: no node twice, a nested node only with
\* the subdirectory that holds it
ScanTrees ==
    { l \in NodeListsUpTo(MaxNodes) :
        /\ \A i, j \in 1..Len(l) : i # j => l[i] # l[j]
        /\ \A i \in 1..Len(l) :
              l[i].parent # 0 =>
                \E j \in 1..Len(l) : l[j].name = l[i].parent /\ ~l[j].isFile /\ l[j].parent = 0 }

SplitChoices ==
    { AbsentSplit,
      [exists |-> TRUE, dirs |-> [c \in Classes |-> AbsentDir], stray |-> FALSE],
      [exists |-> TRUE, dirs |-> [c \in Classes |-> IF c = "cat" THEN DirWith({1}) ELSE AbsentDir],
       stray |-> FALSE],
      [exists |-> TRUE, dirs |-> [c \in Classes |-> IF c = "cat" THEN DirWith({1, 2}) ELSE DirWith({})],
       stray |-> TRUE],
      [exists |-> TRUE, dirs |-> [c \in Classes |-> IF c = "cat" THEN DirWith({1}) ELSE DirWith({2})],
       stray |-> FALSE] }

AbsentRaw == [present |-> FALSE, entries |-> <<>>]
RawChoices ==
    { AbsentRaw,
      [present |-> TRUE, entries |-> <<>>],
      [present |-> TRUE, entries |-> Listing(2, FALSE, TRUE)],
      [present |-> TRUE, entries |-> Listing(ScenarioFiles, FALSE, FALSE)] }

ConfigChoices == {DefaultRatios, <<8, 1, 2>>}

\* the files of models/ that the code names
CkptPaths == {"best_model.pt", "final_model.pt"}

\* what such a file can hold: nothing, what train.py writes, or something else
CkptFiles ==
    {NoFile, Garbage, OtherDict}
    \cup {save_best(w) : w \in 1..MaxWeights} \cup {save_final(w) : w \in 1..MaxWeights}

\* models/ after a training run
TrainedDisk == [f \in CkptPaths |-> IF f = "best_model.pt" THEN save_best(1) ELSE save_final(2)]

\* the images handed to predict: PIL images and paths of readable images with
\* every output vector of the network, a path that does not exist, an object
\* of an unsupported type
ImageChoices ==
    {Image(k, l) : k \in {"pil", "path"}, l \in [1..NUM_CLASSES -> 0..MaxLogit]}
    \cup {Image("missing_path", [i \in 1..NUM_CLASSES |-> 0]),
          Image("unsupported", [i \in 1..NUM_CLASSES |-> 0]),
          Image("truncated", [i \in 1..NUM_CLASSES |-> 0])}

\* models/ as the service can find it: after training, with final_model.pt
\* only, empty, and with a best_model.pt that is no checkpoint
AppDisks ==
    { TrainedDisk,
      [f \in CkptPaths |-> IF f = "best_model.pt" THEN NoFile ELSE save_final(2)],
      [f \in CkptPaths |-> NoFile],
      [f \in CkptPaths |-> IF f = "best_model.pt" THEN Garbage ELSE save_final(2)] }

\* uploads: images scored for either class, a text upload, a part without
\* content type, bytes that are no image, an image cut short
UploadChoices ==
    { Upload("image", "image", <<MaxLogit, 0>>), Upload("image", "image", <<0, MaxLogit>>),
      Upload("text", "image", <<0, 0>>), Upload("none", "image", <<0, 0>>),
      Upload("image", "garbage", <<0, 0>>), Upload("image", "truncated", <<0, 0>>) }

RECURSIVE ImageListsUpTo(_)
ImageListsUpTo(n) ==
    IF n = 0 THEN {<<>>}
    ELSE ImageListsUpTo(n - 1) \cup
         {Append(l, x) : l \in {m \in ImageListsUpTo(n - 1) : Len(m) = n - 1},
                         x \in ImageChoices}

-----------------------------------------------------------------------------
(* States before anything ran *)

NoCall == [err |-> "none", train |-> <<>>, val |-> <<>>, test |-> <<>>]
NoSave == [called |-> FALSE, before |-> AbsentDir, writes |-> <<>>, attempted |-> <<>>, raised |-> ""]
NoLoad == [called |-> FALSE, kind |-> "", shape |-> <<>>, raised |-> ""]
NoPix == <<0, 0>>
NoScan == [called |-> FALSE, err |-> "", files |-> <<>>]
NoCtor == [called |-> FALSE, raised |-> "", loads |-> 0]
NoGet == [endpoint |-> "", loaded |-> FALSE, status |-> 0, body |-> [detail |-> ""]]
NoMeta == [written |-> FALSE, epoch |-> 0, val_acc |-> 0]
NoMonCall == [op |-> "", inference_time |-> 0, predicted_class |-> "", success |-> FALSE]
NoMonOut == [called |-> FALSE, metrics |-> ZeroMetrics,
             average_inference_time |-> ZeroRate, error_rate |-> ZeroRate]
NoLogCall == [called |-> FALSE, funcRaised |-> "", funcResult |-> NoLogResult,
              raised |-> "", result |-> NoLogResult, added |-> <<>>]
NoPredict == [called |-> FALSE, arg |-> 0, return_probs |-> FALSE, raised |-> "", result |-> NoResult]
NoBatch == [called |-> FALSE, raised |-> "", results |-> <<>>]

SplitIdle ==
    /\ dirExists = FALSE /\ dirList = <<>> /\ ratios = DefaultRatios /\ seed = DefaultSeed
    /\ rng = 0 /\ last = NoCall /\ ref = NoCall /\ calls = 0 /\ scans = 0
    /\ drawn = FALSE /\ lastDrawn = FALSE

SaveIdle ==
    /\ fstat = [p \in Paths |-> "ok"] /\ flist = <<>> /\ dest = "train" /\ scls = "cat"
    /\ saveRes = NoSave /\ loadRes = NoLoad /\ lsrc = "ok" /\ ltarget = IMG_SIZE
    /\ lpix = NoPix /\ loadPix = NoPix

ScanIdle == scanExists = FALSE /\ scanTree = <<>> /\ scanRes = NoScan

PredIdle ==
    /\ disk = TrainedDisk /\ pathArg = "None" /\ deviceArg = "None" /\ cudaAvail = FALSE
    /\ ctorRes = NoCtor /\ predictor = NoPredictor
    /\ batch = <<>> /\ predRes = NoPredict /\ batchRes = NoBatch

AppIdle ==
    /\ appPc = "init" /\ MODEL_LOADED = 0
    /\ REQUEST_COUNT = [l \in {"success", "error"} |-> 0]
    /\ INFERENCE_TIME = [count |-> 0, sum |-> 0]
    /\ PREDICTION_CLASS = [c \in Classes |-> 0]
    /\ request_count = 0 /\ total_inference_time = 0
    /\ inflight = <<>> /\ nreq = 0 /\ peak = 0 /\ badSeen = 0
    /\ served = [c \in StatusCodes |-> 0] /\ okTime = 0
    /\ metricsResp = NoMetrics /\ getResp = NoGet

TrainIdle ==
    /\ trainAccs = <<>> /\ trainPc = "idle" /\ epoch = 0 /\ best_val_acc = 0
    /\ bestMeta = NoMeta /\ bestWrites = <<>> /\ finalWrites = 0

MonIdle ==
    /\ monMetrics = ZeroMetrics /\ monLast = NoMonCall /\ monOut = NoMonOut /\ monCalls = 0

LogIdle ==
    /\ logFile = <<>> /\ logFunc = "" /\ logRes = NoLogCall /\ logCalls = 0

MoreIdle == TrainIdle /\ MonIdle /\ LogIdle

ExtIdle == ScanIdle /\ PredIdle /\ AppIdle /\ MoreIdle

PipeIdle ==
    /\ tree = [s \in Splits |-> AbsentSplit] /\ rawRoot = FALSE
    /\ raw = [c \in Classes |-> AbsentRaw]
    /\ pc = "idle" /\ err = NoErr /\ cls = 1 /\ files = <<>> /\ stages = <<>>
    /\ runs = 0 /\ tree0 = tree /\ tree1 = tree

-----------------------------------------------------------------------------
(* split_dataset called directly *)

InitSplit ==
    /\ dirExists \in BOOLEAN
    /\ dirList \in DirListings
    /\ (~dirExists => dirList = <<>>)
    /\ ratios \in RatioTriples
    /\ seed \in Seeds
    /\ rng = 0 /\ last = NoCall /\ ref = NoCall /\ calls = 0 /\ scans = 0
    /\ drawn = FALSE /\ lastDrawn = FALSE
    /\ SaveIdle /\ PipeIdle /\ ExtIdle

\* train, val, test = split_dataset(data_dir, ratios, seed)
CallSplit ==
    /\ calls < MaxCalls
    /\ LET o == split_dataset(dirExists, dirList, ratios, seed, rng)
           res == [err |-> o.err, train |-> o.train, val |-> o.val, test |-> o.test]
       IN /\ last' = res
          /\ ref' = IF calls = 0 THEN res ELSE ref
          /\ rng' = o.rng
          /\ scans' = scans + o.scanned
    /\ calls' = calls + 1
    /\ lastDrawn' = drawn
    /\ drawn' = FALSE
    /\ UNCHANGED <<dirExists, dirList, ratios, seed>>
    /\ UNCHANGED <<saveVars, pipeVars, extVars>>

\* other code of the process draws from the random module
UseRandom ==
    /\ rng' = RngStep(rng)
    /\ drawn' = TRUE
    /\ UNCHANGED <<dirExists, dirList, ratios, seed, last, ref, calls, scans, lastDrawn>>
    /\ UNCHANGED <<saveVars, pipeVars, extVars>>

NextSplit == CallSplit \/ UseRandom
SpecSplit == InitSplit /\ [][NextSplit]_vars

-----------------------------------------------------------------------------
(* save_images called directly *)

InitSave ==
    /\ fstat \in [Paths -> FileStates]
    /\ flist \in ListsUpTo(MaxList)
    /\ dest \in Splits
    /\ scls \in Classes
    /\ \E d \in {AbsentDir, DirWith({1})} :
          tree = [s \in Splits |->
                    IF s = dest /\ d.present
                    THEN [exists |-> TRUE, dirs |-> [c \in Classes |-> IF c = scls THEN d ELSE AbsentDir],
                          stray |-> FALSE]
                    ELSE AbsentSplit]
    /\ saveRes = NoSave /\ loadRes = NoLoad /\ lsrc = "ok" /\ ltarget = IMG_SIZE
    /\ lpix = NoPix /\ loadPix = NoPix
    /\ SplitIdle /\ ExtIdle
    /\ rawRoot = FALSE /\ raw = [c \in Classes |-> AbsentRaw]
    /\ pc = "idle" /\ err = NoErr /\ cls = 1 /\ files = <<>> /\ stages = <<>>
    /\ runs = 0 /\ tree0 = tree /\ tree1 = tree

\* save_images(flist, dest, scls)
CallSave ==
    /\ LET d == tree[dest].dirs[scls]
           o == save_images(flist, fstat, d)
       IN /\ tree' = [tree EXCEPT ![dest].exists = TRUE,
                                  ![dest].dirs[scls] = [present |-> o.present, files |-> o.files]]
          /\ saveRes' = [called |-> TRUE, before |-> d, writes |-> o.writes,
                         attempted |-> o.attempted, raised |-> o.raised]
    /\ UNCHANGED <<fstat, flist, dest, scls, loadRes, lsrc, ltarget, lpix, loadPix>>
    /\ UNCHANGED <<rawRoot, raw, pc, err, cls, files, stages, runs, tree0, tree1>>
    /\ UNCHANGED <<splitVars, extVars>>

NextSave == CallSave
SpecSave == InitSave /\ [][NextSave]_vars

-----------------------------------------------------------------------------
(* load_and_preprocess_image called directly *)

InitLoad ==
    /\ lsrc \in FileStates
    /\ ltarget \in Targets
    /\ lpix \in PixelRanges
    /\ loadPix = NoPix
    /\ fstat = [p \in Paths |-> "ok"] /\ flist = <<>> /\ dest = "train" /\ scls = "cat"
    /\ saveRes = NoSave /\ loadRes = NoLoad
    /\ SplitIdle /\ PipeIdle /\ ExtIdle

\* load_and_preprocess_image(path, ltarget), the path in state lsrc
CallLoad ==
    /\ ~loadRes.called
    /\ LET o == load_and_preprocess_image(lsrc, ltarget)
       IN /\ loadRes' = [called |-> TRUE, kind |-> o.kind, shape |-> o.shape, raised |-> o.raised]
          /\ loadPix' = IF o.kind = "array" THEN array_values(lpix) ELSE NoPix
    /\ UNCHANGED <<fstat, flist, dest, scls, saveRes, lsrc, ltarget, lpix>>
    /\ UNCHANGED <<splitVars, pipeVars, extVars>>

NextLoad == CallLoad
SpecLoad == InitLoad /\ [][NextLoad]_vars

-----------------------------------------------------------------------------
(* preprocess_dataset *)

Init ==
    /\ tree \in [Splits -> SplitChoices]
    /\ rawRoot \in BOOLEAN
    /\ raw \in [Classes -> RawChoices]
    /\ (~rawRoot => raw = [c \in Classes |-> AbsentRaw])
    /\ ratios \in ConfigChoices
    /\ pc = "start" /\ err = NoErr /\ cls = 1 /\ files = <<>> /\ stages = <<>>
    /\ runs = 1 /\ tree0 = tree /\ tree1 = tree
    /\ dirExists = FALSE /\ dirList = <<>> /\ seed = DefaultSeed
    /\ rng = 0 /\ last = NoCall /\ ref = NoCall /\ calls = 0 /\ scans = 0
    /\ drawn = FALSE /\ lastDrawn = FALSE
    /\ SaveIdle /\ ExtIdle

Next == RawCheck \/ Clean \/ ClassCheck \/ Scan \/ SplitFiles \/ Rerun
Spec == Init /\ [][Next]_vars

-----------------------------------------------------------------------------
(* get_image_files called directly *)

InitScan ==
    /\ scanExists \in BOOLEAN
    /\ scanTree \in ScanTrees
    /\ (~scanExists => scanTree = <<>>)
    /\ scanRes = NoScan
    /\ SplitIdle /\ SaveIdle /\ PipeIdle /\ PredIdle /\ AppIdle /\ MoreIdle

\* get_image_files(directory)
CallScan ==
    /\ ~scanRes.called
    /\ LET o == get_image_files_in(scanExists, scanTree)
       IN scanRes' = [called |-> TRUE, err |-> o.err, files |-> o.files]
    /\ UNCHANGED <<scanExists, scanTree>>
    /\ UNCHANGED <<splitVars, saveVars, pipeVars, predVars, appVars, moreVars>>

NextScan == CallScan
SpecScan == InitScan /\ [][NextScan]_vars

-----------------------------------------------------------------------------
(* The CatDogPredictor constructor called directly *)

InitCtor ==
    /\ disk \in [CkptPaths -> CkptFiles]
    /\ pathArg \in {"None"} \cup CkptPaths
    /\ deviceArg \in {"None", "cpu"}
    /\ cudaAvail \in BOOLEAN
    /\ ctorRes = NoCtor /\ predictor = NoPredictor
    /\ batch = <<>> /\ predRes = NoPredict /\ batchRes = NoBatch
    /\ SplitIdle /\ SaveIdle /\ PipeIdle /\ ScanIdle /\ AppIdle /\ MoreIdle

\* predictor = CatDogPredictor(pathArg, deviceArg)
Construct ==
    /\ ~ctorRes.called
    /\ LET o == CatDogPredictor_init(pathArg, deviceArg, cudaAvail, disk)
       IN /\ ctorRes' = [called |-> TRUE, raised |-> o.raised, loads |-> o.loads]
          /\ predictor' = o.predictor
    /\ UNCHANGED <<disk, pathArg, deviceArg, cudaAvail, batch, predRes, batchRes>>
    /\ UNCHANGED <<splitVars, saveVars, pipeVars, scanVars, appVars, moreVars>>

NextCtor == Construct
SpecCtor == InitCtor /\ [][NextCtor]_vars

-----------------------------------------------------------------------------
(* The inference service *)

InitApp ==
    /\ disk \in AppDisks
    /\ pathArg = "None" /\ deviceArg = "None" /\ cudaAvail = FALSE
    /\ ctorRes = NoCtor /\ predictor = NoPredictor
    /\ batch = <<>> /\ predRes = NoPredict /\ batchRes = NoBatch
    /\ AppIdle
    /\ SplitIdle /\ SaveIdle /\ PipeIdle /\ ScanIdle /\ MoreIdle

\* a /predict response leaves the service
Respond(code, t) ==
    /\ served' = [served EXCEPT ![code] = @ + 1]
    /\ okTime' = IF code = 200 THEN okTime + t ELSE okTime

\* lines 63-83: the startup event
Startup ==
    /\ appPc = "init"
    /\ LET o == CatDogPredictor_init(startup_model_path(disk), "None", cudaAvail, disk)
       IN IF o.raised = ""
          THEN predictor' = o.predictor /\ MODEL_LOADED' = 1 /\ appPc' = "up"
          ELSE predictor' = predictor /\ MODEL_LOADED' = 0 /\ appPc' = "down"
    /\ UNCHANGED <<REQUEST_COUNT, INFERENCE_TIME, PREDICTION_CLASS, request_count,
                   total_inference_time, inflight, nreq, served, okTime, metricsResp, getResp, peak,
                   badSeen>>
    /\ UNCHANGED <<disk, pathArg, deviceArg, cudaAvail, ctorRes, batch, predRes, batchRes>>
    /\ UNCHANGED <<splitVars, saveVars, pipeVars, scanVars, moreVars>>

\* lines 127-135: /predict up to await file.read()
PredictBegin ==
    /\ appPc \in {"init", "up"}
    /\ nreq < MaxRequests
    /\ nreq' = nreq + 1
    /\ \E u \in UploadChoices :
          /\ \E code \in begin_outcomes(predictor.loaded, u) :
                IF code = 0
                THEN inflight' = Append(inflight, u) /\ UNCHANGED <<served, okTime>>
                ELSE Respond(code, 0) /\ inflight' = inflight
          /\ badSeen' = IF predictor.loaded /\ (u.ctype # "image" \/ open_upload(u) # "")
                        THEN badSeen + 1 ELSE badSeen
    /\ peak' = IF Len(inflight') > peak THEN Len(inflight') ELSE peak
    /\ UNCHANGED <<appPc, MODEL_LOADED, REQUEST_COUNT, INFERENCE_TIME, PREDICTION_CLASS,
                   request_count, total_inference_time, metricsResp, getResp>>
    /\ UNCHANGED <<predVars, splitVars, saveVars, pipeVars, scanVars, moreVars>>

\* lines 135-170: /predict from the return of file.read() to the response
PredictResume ==
    /\ \E i \in 1..Len(inflight), inference_time \in 0..MaxTime :
          LET u == inflight[i]
              o == predict(upload_image(u), TRUE)
          IN /\ inflight' = SubSeq(inflight, 1, i - 1) \o SubSeq(inflight, i + 1, Len(inflight))
             /\ IF open_upload(u) # ""
                THEN /\ Respond(400, 0)
                     /\ UNCHANGED <<REQUEST_COUNT, INFERENCE_TIME, PREDICTION_CLASS,
                                    request_count, total_inference_time>>
                ELSE IF o.raised # ""
                THEN /\ REQUEST_COUNT' = [REQUEST_COUNT EXCEPT !["error"] = @ + 1]
                     /\ request_count' = request_count_on_error(request_count)
                     /\ Respond(500, 0)
                     /\ UNCHANGED <<INFERENCE_TIME, PREDICTION_CLASS, total_inference_time>>
                ELSE /\ REQUEST_COUNT' = [REQUEST_COUNT EXCEPT !["success"] = @ + 1]
                     /\ INFERENCE_TIME' = [count |-> INFERENCE_TIME.count + 1,
                                           sum |-> INFERENCE_TIME.sum + inference_time]
                     /\ PREDICTION_CLASS' =
                            [PREDICTION_CLASS EXCEPT ![o.result.predicted_class] = @ + 1]
                     /\ request_count' = next_request_count(request_count, Len(inflight) - 1)
                     /\ total_inference_time' = total_inference_time + inference_time
                     /\ Respond(200, inference_time)
    /\ UNCHANGED <<appPc, MODEL_LOADED, nreq, metricsResp, getResp, peak, badSeen>>
    /\ UNCHANGED <<predVars, splitVars, saveVars, pipeVars, scanVars, moreVars>>

\* lines 182-196: /metrics/json
MetricsJson ==
    /\ appPc \in {"init", "up"}
    /\ metricsResp' = [called |-> TRUE,
                       body |-> metrics_json(request_count, total_inference_time, predictor)]
    /\ UNCHANGED <<appPc, MODEL_LOADED, REQUEST_COUNT, INFERENCE_TIME, PREDICTION_CLASS,
                   request_count, total_inference_time, inflight, nreq, served, okTime,
                   getResp, peak, badSeen>>
    /\ UNCHANGED <<predVars, splitVars, saveVars, pipeVars, scanVars, moreVars>>

\* lines 102-120: /health
Health ==
    /\ appPc \in {"init", "up"}
    /\ getResp' = health_check(predictor)
    /\ UNCHANGED <<appPc, MODEL_LOADED, REQUEST_COUNT, INFERENCE_TIME, PREDICTION_CLASS,
                   request_count, total_inference_time, inflight, nreq, served, okTime,
                   metricsResp, peak, badSeen>>
    /\ UNCHANGED <<predVars, splitVars, saveVars, pipeVars, scanVars, moreVars>>

\* lines 199-212: /model-info
ModelInfo ==
    /\ appPc \in {"init", "up"}
    /\ getResp' = model_info(predictor)
    /\ UNCHANGED <<appPc, MODEL_LOADED, REQUEST_COUNT, INFERENCE_TIME, PREDICTION_CLASS,
                   request_count, total_inference_time, inflight, nreq, served, okTime,
                   metricsResp, peak, badSeen>>
    /\ UNCHANGED <<predVars, splitVars, saveVars, pipeVars, scanVars, moreVars>>

NextApp == Startup \/ PredictBegin \/ PredictResume \/ MetricsJson \/ Health \/ ModelInfo
SpecApp == InitApp /\ [][NextApp]_vars

-----------------------------------------------------------------------------
(* predict and predict_batch called on a constructed predictor *)

InitPredict ==
    /\ disk = TrainedDisk /\ pathArg = "None" /\ deviceArg = "None" /\ cudaAvail = FALSE
    /\ ctorRes = [called |-> TRUE, raised |-> "", loads |-> 1]
    /\ predictor = CatDogPredictor_init(pathArg, deviceArg, cudaAvail, disk).predictor
    /\ batch \in ImageListsUpTo(MaxBatch)
    /\ predRes = NoPredict /\ batchRes = NoBatch
    /\ SplitIdle /\ SaveIdle /\ PipeIdle /\ ScanIdle /\ AppIdle /\ MoreIdle

\* predictor.predict(batch[i], return_probs)
CallPredict ==
    /\ predictor.loaded
    /\ \E i \in 1..Len(batch), return_probs \in BOOLEAN :
          LET o == predict(batch[i], return_probs)
          IN predRes' = [called |-> TRUE, arg |-> i, return_probs |-> return_probs,
                         raised |-> o.raised, result |-> o.result]
    /\ UNCHANGED <<disk, pathArg, deviceArg, cudaAvail, ctorRes, predictor, batch, batchRes>>
    /\ UNCHANGED <<splitVars, saveVars, pipeVars, scanVars, appVars, moreVars>>

\* predictor.predict_batch(batch)
CallPredictBatch ==
    /\ predictor.loaded
    /\ LET o == predict_batch(batch)
       IN batchRes' = [called |-> TRUE, raised |-> o.raised, results |-> o.results]
    /\ UNCHANGED <<disk, pathArg, deviceArg, cudaAvail, ctorRes, predictor, batch, predRes>>
    /\ UNCHANGED <<splitVars, saveVars, pipeVars, scanVars, appVars, moreVars>>

NextPredict == CallPredict \/ CallPredictBatch
SpecPredict == InitPredict /\ [][NextPredict]_vars

-----------------------------------------------------------------------------
(* train_model *)

\* the validation accuracies of the epochs of one run, epoch by epoch
AccSeqs == UNION {[1..n -> 0..MaxAcc] : n \in 0..MaxEpochs}

\* train.py line 241: best_val_acc = 0.0, nothing written
InitTrain ==
    /\ trainAccs \in AccSeqs
    /\ trainPc = "loop" /\ epoch = 0 /\ best_val_acc = 0
    /\ bestMeta = NoMeta /\ bestWrites = <<>> /\ finalWrites = 0
    /\ SplitIdle /\ SaveIdle /\ PipeIdle /\ ScanIdle /\ PredIdle /\ AppIdle
    /\ MonIdle /\ LogIdle

\* lines 247-292: one pass of the loop body; epoch is the loop index
TrainEpoch ==
    /\ trainPc = "loop" /\ epoch < Len(trainAccs)
    /\ LET val_acc == trainAccs[epoch + 1]
       IN IF improved(val_acc, best_val_acc)
          THEN /\ best_val_acc' = val_acc
               /\ bestMeta' = [written |-> TRUE, epoch |-> epoch, val_acc |-> val_acc]
               /\ bestWrites' = Append(bestWrites, epoch)
          ELSE UNCHANGED <<best_val_acc, bestMeta, bestWrites>>
    /\ epoch' = epoch + 1
    /\ UNCHANGED <<trainAccs, trainPc, finalWrites>>
    /\ UNCHANGED <<splitVars, saveVars, pipeVars, scanVars, predVars, appVars, monVars, logVars>>

\* lines 294-334: the loop is over; evaluation, then final_model.pt
TrainFinish ==
    /\ trainPc = "loop" /\ epoch = Len(trainAccs)
    /\ trainPc' = "done"
    /\ finalWrites' = finalWrites + 1
    /\ UNCHANGED <<trainAccs, epoch, best_val_acc, bestMeta, bestWrites>>
    /\ UNCHANGED <<splitVars, saveVars, pipeVars, scanVars, predVars, appVars, monVars, logVars>>

NextTrain == TrainEpoch \/ TrainFinish
SpecTrain == InitTrain /\ [][NextTrain]_vars

-----------------------------------------------------------------------------
(* PerformanceMonitor *)

\* the predicted_class arguments: the two known classes and an unknown one
MonClasses == {"cat", "dog", "bird"}

\* lines 68-78: a new monitor
InitMonitor ==
    /\ monMetrics = ZeroMetrics /\ monLast = NoMonCall /\ monOut = NoMonOut /\ monCalls = 0
    /\ SplitIdle /\ SaveIdle /\ PipeIdle /\ ScanIdle /\ PredIdle /\ AppIdle
    /\ TrainIdle /\ LogIdle

\* monitor.record_request(t, c, success)
RecordRequest ==
    /\ monCalls < MaxMonCalls
    /\ monCalls' = monCalls + 1
    /\ \E t \in 0..MaxTime, c \in MonClasses, success \in BOOLEAN :
          /\ monMetrics' = record_request(monMetrics, t, c, success)
          /\ monLast' = [op |-> "record_request", inference_time |-> t,
                         predicted_class |-> c, success |-> success]
    /\ UNCHANGED monOut
    /\ UNCHANGED <<splitVars, saveVars, pipeVars, scanVars, predVars, appVars, trainVars, logVars>>

\* monitor.get_metrics()
GetMetrics ==
    /\ monCalls < MaxMonCalls
    /\ monCalls' = monCalls + 1
    /\ monOut' = get_metrics(monMetrics)
    /\ monLast' = [NoMonCall EXCEPT !.op = "get_metrics"]
    /\ UNCHANGED monMetrics
    /\ UNCHANGED <<splitVars, saveVars, pipeVars, scanVars, predVars, appVars, trainVars, logVars>>

\* monitor.reset_metrics()
ResetMetrics ==
    /\ monCalls < MaxMonCalls
    /\ monCalls' = monCalls + 1
    /\ monMetrics' = reset_metrics(monMetrics)
    /\ monLast' = [NoMonCall EXCEPT !.op = "reset_metrics"]
    /\ UNCHANGED monOut
    /\ UNCHANGED <<splitVars, saveVars, pipeVars, scanVars, predVars, appVars, trainVars, logVars>>

NextMonitor == RecordRequest \/ GetMetrics \/ ResetMetrics
SpecMonitor == InitMonitor /\ [][NextMonitor]_vars

-----------------------------------------------------------------------------
(* log_prediction *)

\* an empty request log, no call made
InitLog ==
    /\ logFile = <<>> /\ logFunc = "" /\ logRes = NoLogCall /\ logCalls = 0
    /\ SplitIdle /\ SaveIdle /\ PipeIdle /\ ScanIdle /\ PredIdle /\ AppIdle
    /\ TrainIdle /\ MonIdle

\* one call of the wrapper around a coroutine that behaves as f
CallWrapped ==
    /\ logCalls < MaxLogCalls
    /\ logCalls' = logCalls + 1
    /\ \E f \in LogFuncs, c \in Classes :
          LET o == await_func(f, c)
              w == log_prediction(f, c)
          IN /\ logFunc' = f
             /\ logRes' = [called |-> TRUE, funcRaised |-> o.raised, funcResult |-> o.result,
                           raised |-> w.raised, result |-> w.result, added |-> w.added]
             /\ logFile' = logFile \o w.added
    /\ UNCHANGED <<splitVars, saveVars, pipeVars, scanVars, predVars, appVars, trainVars, monVars>>

NextLog == CallWrapped
SpecLog == InitLog /\ [][NextLog]_vars

-----------------------------------------------------------------------------
(* Claims about split_dataset (SpecSplit) *)

\* how often x occurs in the sequence q
Occurrences(q, x) == Cardinality({i \in 1..Len(q) : q[i] = x})

\* the file list the latest call scanned
Scanned == get_image_files(dirList)

\* x / 10 rounded down
FloorTenth(x) == x \div 10

\* each ratio lies in [0, 1]
ProperRatios(r) == \A i \in 1..3 : r[i] >= 0 /\ r[i] <= 10

\* C1: whenever split_dataset returns (any scanned list, any ratios the
\* validation accepts), train, val and test partition the scanned files: every
\* file is in exactly one of the three lists, once, and the sizes add up to n.
C1_SplitIsPartition ==
    (calls > 0 /\ last.err = "") =>
        LET out == last.train \o last.val \o last.test
        IN /\ Len(out) = Len(Scanned)
           /\ \A i \in 1..Len(Scanned) : Occurrences(out, Scanned[i]) = 1

\* C1, for ratios in [0, 1] only: there the partition holds.
C1_PartitionForProperRatios == ProperRatios(ratios) => C1_SplitIsPartition

\* C2: whenever split_dataset returns, len(train) = floor(n * train_ratio),
\* len(val) = floor(n * val_ratio) and test holds the other n - len(train) -
\* len(val) files.
C2_FloorSizes ==
    (calls > 0 /\ last.err = "") =>
        LET n == Len(Scanned)
        IN /\ Len(last.train) = FloorTenth(n * ratios[1])
           /\ Len(last.val) = FloorTenth(n * ratios[2])
           /\ Len(last.test) = n - Len(last.train) - Len(last.val)

\* C2, for ratios in [0, 1] only: there the sizes are the floors.
C2_FloorSizesForProperRatios == ProperRatios(ratios) => C2_FloorSizes

\* C3: every call of split_dataset on the same directory listing, ratios and
\* seed returns what the first call returned, element for element, whatever
\* was drawn from the process-wide generator before or between the calls.
C3_SameInputsSameSplit == calls > 0 => last = ref

\* C3 witness: a second call, made after other code drew from the generator,
\* returned a shuffled split of at least three files.
C3_Witness ==
    /\ calls >= 2 /\ lastDrawn /\ last.err = ""
    /\ Len(last.train) >= 2 /\ Len(last.test) >= 1
    /\ last.train \o last.val \o last.test # Scanned

\* C4: with ratios that do not sum to 1, split_dataset raises the assertion
\* error without scanning the directory, and returns no list.
C4_InvalidRatiosFailBeforeScan ==
    ~RatiosValid(ratios) =>
        /\ scans = 0
        /\ (calls > 0 => last = [err |-> "AssertionError", train |-> <<>>,
                                 val |-> <<>>, test |-> <<>>])

\* C4 witness: the call was made with invalid ratios on an existing directory
\* that holds image files.
C4_Witness ==
    /\ calls > 0 /\ ~RatiosValid(ratios) /\ dirExists /\ Len(Scanned) >= 2
    /\ last.err = "AssertionError"

-----------------------------------------------------------------------------
(* Claims about preprocess_dataset (Spec) *)

\* the run has ended
Ended == pc \in {"done", "failed"}

\* the raw root and both class directories exist
RawComplete == rawRoot /\ \A c \in Classes : raw[c].present

\* the end-to-end scenario: ScenarioFiles images per class, default ratios
ScenarioInput ==
    /\ RawComplete
    /\ ratios = DefaultRatios
    /\ \A c \in Classes : Len(get_image_files(raw[c].entries)) = ScenarioFiles

\* C5: a run whose configured ratios do not sum to 1 deletes nothing and
\* writes nothing: the processed tree stays as the run found it.
C5_InvalidRatiosNoIO == ~RatiosValid(ratios) => tree = tree0

\* C6: a run on valid input (raw root and class directories present, default
\* ratios, ScenarioFiles images per class) ends done, with floor(0.8 n),
\* floor(0.1 n) and the remaining files of each class in train, val and test.
C6_ValidRunCompletes ==
    (ScenarioInput /\ Ended) =>
        /\ pc = "done"
        /\ \A c \in Classes :
              /\ count(tree, "train", c) = FloorTenth(ScenarioFiles * 8)
              /\ count(tree, "val", c) = FloorTenth(ScenarioFiles * 1)
              /\ count(tree, "test", c) = ScenarioFiles - FloorTenth(ScenarioFiles * 8)
                                                        - FloorTenth(ScenarioFiles * 1)

\* C7: a run that got past the directory checks and ends while one of the six
\* split/class directories is missing or empty ends failed, with the assertion
\* error that names the first such split/class.
C7_EmptyOutputReported ==
    (RawComplete /\ Ended /\ sanity_checks(tree) # NoErr) =>
        (pc = "failed" /\ err = sanity_checks(tree))

\* C8: once a run has cleaned, no class directory the run found is left under
\* train, val or test (so whatever a split/class directory holds afterwards
\* was written by this run), and a second run on the same raw data leaves the
\* tree exactly as the first run left it.
C8_CleanedAndIdempotent ==
    /\ ("clean" \in Range(stages)) =>
          \A s \in Splits : \A c \in Classes : tree[s].dirs[c] = AbsentDir
    /\ (runs >= 2 /\ Ended) => tree = tree1

\* C8 witness: the second run has ended after cleaning, and the first run had
\* found files in the test split.
C8_Witness ==
    /\ runs = 2 /\ Ended /\ "clean" \in Range(stages)
    /\ tree0["test"].dirs["cat"].files # {}
    /\ tree0["train"].dirs["dog"].present

-----------------------------------------------------------------------------
(* Claims about save_images (SpecSave) and load_and_preprocess_image (SpecLoad) *)

\* the file names of the paths of fl whose source is a decodable image
RECURSIVE OkNames(_)
OkNames(fl) ==
    IF fl = <<>> THEN <<>>
    ELSE (IF fstat[Head(fl)] = "ok" THEN <<Head(fl).name>> ELSE <<>>) \o OkNames(Tail(fl))

\* C9: after save_images, {dest}/{class} exists, normalization was attempted
\* on every file of the list in order, nothing was raised, and the files
\* written are exactly the names of the files that normalized, one write each:
\* the directory holds what it held before plus those names.
C9_WritesExactlyNormalized ==
    saveRes.called =>
        /\ saveRes.raised = ""
        /\ tree[dest].exists /\ tree[dest].dirs[scls].present
        /\ saveRes.attempted = flist
        /\ saveRes.writes = OkNames(flist)
        /\ tree[dest].dirs[scls].files = saveRes.before.files \cup Range(OkNames(flist))

\* C9 witness: the directory was absent, and a file that failed to normalize
\* came before one that was written.
C9_Witness ==
    /\ saveRes.called /\ ~saveRes.before.present
    /\ Len(flist) = 2 /\ fstat[flist[1]] = "corrupt" /\ fstat[flist[2]] = "ok"
    /\ tree[dest].dirs[scls].files = {flist[2].name}

\* C10: load_and_preprocess_image raises nothing: it returns None for a
\* missing, unreadable, corrupt or truncated source, and an array exactly when
\* the source decodes and the target size can be resized to.
C10_FailureReturnsNone ==
    loadRes.called =>
        /\ loadRes.raised = ""
        /\ loadRes.kind \in {"array", "None"}
        /\ (loadRes.kind = "array") <=> (lsrc = "ok" /\ ltarget[1] > 0 /\ ltarget[2] > 0)

\* C10 witness: the call on a nonexistent path returned None.
C10_Witness == loadRes.called /\ lsrc = "missing" /\ loadRes.kind = "None"

\* C11: for a decodable source and a positive target (height, width),
\* load_and_preprocess_image returns an array of shape (height, width, 3)
\* whose values, 8-bit channel values over 255, all lie in [0, 1].
C11_ShapeAndRange ==
    (loadRes.called /\ lsrc = "ok" /\ ltarget[1] > 0 /\ ltarget[2] > 0) =>
        /\ loadRes.kind = "array"
        /\ loadRes.shape = <<ltarget[1], ltarget[2], 3>>
        /\ 0 <= loadPix[1] /\ loadPix[1] <= loadPix[2] /\ loadPix[2] <= 255

\* C11 for square targets, IMG_SIZE among them: shape and range are as stated.
C11_ShapeAndRangeForSquareTargets == ltarget[1] = ltarget[2] => C11_ShapeAndRange

\* C11 for any target: the values are in [0, 1] and the shape is
\* (target[1], target[0], 3), the target read as (width, height).
C11_ShapeAsWidthHeight ==
    (loadRes.called /\ lsrc = "ok" /\ ltarget[1] > 0 /\ ltarget[2] > 0) =>
        /\ loadRes.kind = "array"
        /\ loadRes.shape = <<ltarget[2], ltarget[1], 3>>
        /\ 0 <= loadPix[1] /\ loadPix[1] <= loadPix[2] /\ loadPix[2] <= 255

-----------------------------------------------------------------------------
(* Claims about get_image_files (SpecScan) *)

\* the spellings of the model's suffixes that are an image extension when
\* compared case-insensitively
ImageSuffixSpellings == {".jpg", ".JPG", ".jpeg", ".JPEG", ".png", ".Png", ".bmp", ".BMP"}

\* the direct children that are regular files with an image extension
DirectImageFiles ==
    {x \in Range(scanTree) : x.parent = 0 /\ x.isFile /\ x.suffix \in ImageSuffixSpellings}

\* C12: get_image_files returns exactly the direct children that are regular
\* files with an extension in {.jpg, .jpeg, .png, .bmp}, case-insensitively:
\* no subdirectory, no other extension, no file inside a subdirectory, every
\* matching file once.
C12_ExactlyDirectImageFiles ==
    (scanRes.called /\ scanExists) =>
        /\ scanRes.err = ""
        /\ {f.name : f \in Range(scanRes.files)} = {x.name : x \in DirectImageFiles}
        /\ Len(scanRes.files) = Cardinality(DirectImageFiles)
        /\ \A f \in Range(scanRes.files) : f.isFile

\* C12 witness: next to a subdirectory named like an image that holds an image,
\* the one file returned is the one with the upper-case suffix.
C12_Witness ==
    /\ scanRes.called
    /\ Node(6, FALSE, ".jpg", 0) \in Range(scanTree)
    /\ Node(7, TRUE, ".png", 6) \in Range(scanTree)
    /\ scanRes.files = <<Entry(2, TRUE, ".JPG")>>

-----------------------------------------------------------------------------
(* Claims about missing directories and failed stages *)

\* the position in CLASS_NAMES of the first class whose raw directory is missing
FirstMissing ==
    CHOOSE i \in 1..Len(CLASS_NAMES) :
        /\ ~raw[CLASS_NAMES[i]].present
        /\ \A j \in 1..(i - 1) : raw[CLASS_NAMES[j]].present

\* how often the current run executed the stage st
StageCount(st) == Cardinality({i \in 1..Len(stages) : stages[i] = st})

\* C13: a run that finds the raw root or a class directory missing ends with
\* the not-found error, having scanned no class at or after the missing one:
\* a missing directory is never treated as an empty class.
C13_MissingDirectoryNotFound ==
    (Ended /\ ~RawComplete) =>
        /\ pc = "failed"
        /\ err.type = "FileNotFoundError"
        /\ StageCount("scan") <= (IF rawRoot THEN FirstMissing - 1 ELSE 0)

\* C13 where the raw root or the first class directory is missing: the run
\* ends with the not-found error before any scan.
C13_MissingRootOrFirstClass ==
    (Ended /\ (~rawRoot \/ ~raw[CLASS_NAMES[1]].present)) =>
        /\ pc = "failed"
        /\ err.type = "FileNotFoundError"
        /\ StageCount("scan") = 0

\* C13 for get_image_files (SpecScan): a missing directory raises not-found,
\* an existing one without images returns the empty list.
C13_ScanMissingRaises ==
    scanRes.called =>
        ((scanRes.err = "FileNotFoundError") <=> ~scanExists)

\* C13 for split_dataset (SpecSplit): with accepted ratios, a missing
\* directory raises not-found and an existing one does not.
C13_SplitMissingRaises ==
    (calls > 0 /\ RatiosValid(ratios)) =>
        ((last.err = "FileNotFoundError") <=> ~dirExists)

\* the processed tree as the current run found it
RunStart == IF runs = 1 THEN tree0 ELSE tree1

C14_FailedRunTouchesNothing ==
    [][(pc = "failed") => (tree' = tree /\ pc' = "start" /\ runs' = runs + 1)]_vars

-----------------------------------------------------------------------------
(* Claims about the order of materialization (SpecSave) *)

\* the orderings of the list fl
Orderings(fl) ==
    {q \in [1..Len(fl) -> Range(fl)] : \A x \in Range(fl) : Occurrences(q, x) = Occurrences(fl, x)}

\* no two paths of fl have the same file name
DistinctNames(fl) == \A i, j \in 1..Len(fl) : i # j => fl[i].name # fl[j].name

\* C19: for a list of files with distinct names, save_images leaves the same
\* set of files in {dest}/{class} whatever the order of the list.
C19_OrderIndependent ==
    (saveRes.called /\ DistinctNames(flist)) =>
        \A q \in Orderings(flist) :
            LET o == save_images(q, fstat, saveRes.before)
            IN /\ o.present = tree[dest].dirs[scls].present
               /\ o.files = tree[dest].dirs[scls].files
               /\ o.raised = saveRes.raised

\* C19 witness: two files with different names, the first written and the
\* second missing, added to a directory that held a file before.
C19_Witness ==
    /\ saveRes.called /\ saveRes.before.present
    /\ Len(flist) = 2 /\ flist[1].name # flist[2].name
    /\ fstat[flist[1]] = "ok" /\ fstat[flist[2]] = "missing"
    /\ tree[dest].dirs[scls].files = saveRes.before.files \cup {flist[1].name}

-----------------------------------------------------------------------------
(* Claims about CatDogPredictor (SpecPredict, SpecCtor) *)

\* a fraction num/den lies in [0, 1]
InUnit(x) == x.den > 0 /\ 0 <= x.num /\ x.num <= x.den

\* a >= b for fractions with positive denominators
FracGeq(a, b) == a.num * b.den >= b.num * a.den

\* the keys every result has
BaseKeys == {"predicted_class", "confidence", "class_index"}

\* C15: in the result of predict, class_index is the index of a largest class
\* probability, predicted_class is CLASS_NAMES[class_index], confidence is the
\* probability of predicted_class and lies in [0, 1]; with return_probs the
\* result has probabilities with one entry per class name, without it the key
\* is absent and the other three keys are as with it.
C15_ResultConsistent ==
    (predRes.called /\ predRes.raised = "") =>
        LET r == predRes.result
            full == predict(batch[predRes.arg], TRUE).result
            probs == full.probabilities
        IN /\ r.class_index \in 0..(Len(CLASS_NAMES) - 1)
           /\ r.predicted_class = CLASS_NAMES[r.class_index + 1]
           /\ \A c \in DOMAIN probs : FracGeq(probs[r.predicted_class], probs[c])
           /\ r.confidence = probs[r.predicted_class]
           /\ InUnit(r.confidence)
           /\ IF predRes.return_probs
              THEN /\ DOMAIN r = BaseKeys \cup {"probabilities"}
                   /\ DOMAIN r.probabilities = Classes
                   /\ Cardinality(DOMAIN r.probabilities) = Len(CLASS_NAMES)
                   /\ \A c \in Classes : InUnit(r.probabilities[c])
              ELSE /\ DOMAIN r = BaseKeys
                   /\ r.predicted_class = full.predicted_class
                   /\ r.confidence = full.confidence
                   /\ r.class_index = full.class_index

\* C15 witness: predict without probabilities on an image the network scores
\* higher for the second class returned dog with index 1.
C15_Witness ==
    /\ predRes.called /\ predRes.raised = "" /\ ~predRes.return_probs
    /\ batch[predRes.arg].logits[1] < batch[predRes.arg].logits[2]
    /\ predRes.result.predicted_class = "dog" /\ predRes.result.class_index = 1

\* the file the constructor reads
CtorFile == disk[IF pathArg = "None" THEN "best_model.pt" ELSE pathArg]

\* C16: the constructor loads both checkpoint formats train.py writes, the
\* dict with model_state_dict unwrapped and the bare state mapping directly;
\* a model path with no file raises not-found before any load; after a
\* successful construction the model is in evaluation mode.
C16_BothFormatsLoad ==
    ctorRes.called =>
        /\ (CtorFile = NoFile) =>
              (ctorRes.raised = "FileNotFoundError" /\ ctorRes.loads = 0 /\ ~predictor.loaded)
        /\ \A w \in 1..MaxWeights :
              (CtorFile \in {save_best(w), save_final(w)}) =>
                  (ctorRes.raised = "" /\ predictor.loaded /\ predictor.model.weights = w)
        /\ (ctorRes.raised = "") => (predictor.loaded /\ ~predictor.model.training)
        /\ (ctorRes.raised # "") => ~predictor.loaded

\* C16 witness: constructed with the default path from a best_model.pt in the
\* dict format, next to a final_model.pt with other weights.
C16_Witness ==
    /\ ctorRes.called /\ ctorRes.raised = "" /\ pathArg = "None"
    /\ disk["best_model.pt"] = save_best(2) /\ disk["final_model.pt"] = save_final(1)
    /\ predictor.model.weights = 2 /\ ~predictor.model.training

\* C16 witness for the other format: constructed from final_model.pt.
C16_WitnessRaw ==
    /\ ctorRes.called /\ ctorRes.raised = "" /\ pathArg = "final_model.pt"
    /\ disk["final_model.pt"] = save_final(1) /\ predictor.model.weights = 1

\* the inputs of the batch whose prediction raises
Failing == {i \in 1..Len(batch) : batch[i].kind \in {"missing_path", "unsupported", "truncated"}}

\* C17: predict_batch returns one result per input, in input order, each the
\* result of predict on that input; when predicting an input raises, the
\* exception of the first such input propagates and no list is returned.
C17_OneResultPerInput ==
    batchRes.called =>
        IF Failing = {}
        THEN /\ batchRes.raised = ""
             /\ Len(batchRes.results) = Len(batch)
             /\ \A i \in 1..Len(batch) : batchRes.results[i] = predict(batch[i], TRUE).result
        ELSE /\ batchRes.raised =
                  predict(batch[CHOOSE i \in Failing : \A j \in Failing : i <= j], TRUE).raised
             /\ batchRes.raised \in {"FileNotFoundError", "ValueError", "OSError"}
             /\ batchRes.results = <<>>

\* C17 witness: two images predicted as different classes, results in order.
C17_Witness ==
    /\ batchRes.called /\ batchRes.raised = "" /\ Len(batch) = 2
    /\ batchRes.results[1].predicted_class = "dog"
    /\ batchRes.results[2].predicted_class = "cat"

\* C17 witness for the failure: the second input raised after the first was
\* predicted.
C17_WitnessRaised ==
    /\ batchRes.called /\ Len(batch) = 2 /\ Failing = {2}
    /\ batchRes.raised = "ValueError" /\ batchRes.results = <<>>

-----------------------------------------------------------------------------
(* Claims about the inference service (SpecApp) *)

\* C20: request_count is the number of successful predictions and
\* total_inference_time the sum of their inference times: requests answered
\* 503, 400 or 500 add to neither; /metrics/json reports total_requests equal
\* to request_count and an average of 0 while request_count is 0.
C20_LegacyCountersCountSuccesses ==
    /\ request_count = served[200]
    /\ total_inference_time = okTime
    /\ metricsResp.called =>
          /\ metricsResp.body.total_requests <= request_count
          /\ (metricsResp.body.total_requests = 0) =>
                metricsResp.body.average_inference_time_ms = 0

\* C20 as a step property: a /metrics/json response reports the legacy
\* counter as it is, and a response other than 200 changes neither counter.
C20_ReportsAndRejections ==
    [][ /\ (metricsResp' # metricsResp) =>
              /\ metricsResp'.body.total_requests = request_count
              /\ (request_count = 0) => metricsResp'.body.average_inference_time_ms = 0
        /\ (served'[200] = served[200]) =>
              (request_count' = request_count /\ total_inference_time' = total_inference_time)
        /\ (served'[200] # served[200]) => request_count' = request_count + 1 ]_vars

\* C20, both parts: across every sequence of requests the legacy counters
\* count exactly the successful predictions, and every step reports and
\* rejects as stated.
C20_LegacyCounters == []C20_LegacyCountersCountSuccesses /\ C20_ReportsAndRejections

\* C20 witness: one prediction succeeded and took time, requests were answered
\* 400 and 500, and /metrics/json reported one request.
C20_Witness ==
    /\ served[200] = 1 /\ served[400] >= 1 /\ served[500] >= 1
    /\ request_count = 1 /\ total_inference_time = MaxTime
    /\ metricsResp.called /\ metricsResp.body.total_requests = 1

\* C20 witness for the unloaded service: a request was answered 503 and
\* /metrics/json reported no request and an average of 0.
C20_WitnessUnloaded ==
    /\ served[503] >= 1 /\ request_count = 0
    /\ metricsResp.called /\ metricsResp.body.average_inference_time_ms = 0

\* the number of /predict responses sent
Answered == served[200] + served[400] + served[500] + served[503]

\* C21: when every /predict request that was received has finished, however
\* the requests interleaved at their await, request_count is the number of
\* successful predictions and total_inference_time the sum of their times: no
\* update was lost.
C21_NoLostUpdate ==
    (inflight = <<>>) =>
        /\ Answered = nreq
        /\ request_count = served[200]
        /\ total_inference_time = okTime
        /\ INFERENCE_TIME.count = served[200] /\ INFERENCE_TIME.sum = okTime

\* C21 witness: three requests were suspended at once and all three have
\* finished with a successful prediction.
C21_Witness ==
    /\ inflight = <<>> /\ peak = MaxRequests
    /\ served[200] = MaxRequests /\ request_count = MaxRequests
    /\ total_inference_time > 0

\* no Prometheus counter, histogram or legacy metric has been touched
MetricsUntouched ==
    /\ REQUEST_COUNT = [l \in {"success", "error"} |-> 0]
    /\ INFERENCE_TIME = [count |-> 0, sum |-> 0]
    /\ PREDICTION_CLASS = [c \in Classes |-> 0]
    /\ request_count = 0 /\ total_inference_time = 0

\* C22: while the predictor is not loaded every /predict request is answered
\* 503 whatever the upload, leaving every counter, histogram and legacy metric
\* untouched; /model-info is answered 503 and /health 503 unhealthy exactly
\* when the predictor is not loaded, and /health answers healthy with
\* model_loaded true once it is.
C22_UnloadedAnswers503 ==
    /\ ~predictor.loaded =>
          /\ served[503] = nreq /\ inflight = <<>>
          /\ served[200] = 0 /\ served[400] = 0 /\ served[500] = 0
          /\ MetricsUntouched
    /\ getResp.endpoint \in {"health", "model-info"} =>
          (getResp.status = 503 <=> ~getResp.loaded)
    /\ getResp.endpoint = "health" =>
          IF getResp.loaded
          THEN getResp.status = 200 /\ getResp.body.status = "healthy"
               /\ getResp.body.model_loaded
          ELSE getResp.body.status = "unhealthy"

\* C22 witness: with the predictor not loaded, /predict requests were answered
\* 503 and /health answered 503 unhealthy.
C22_Witness ==
    /\ ~predictor.loaded /\ served[503] = MaxRequests
    /\ getResp.endpoint = "health" /\ getResp.status = 503
    /\ getResp.body.status = "unhealthy"

\* C22 witness for the loaded service: /health answered healthy.
C22_WitnessHealthy ==
    /\ predictor.loaded /\ getResp.endpoint = "health" /\ getResp.status = 200

\* the sum of PREDICTION_CLASS over the classes
PredictionsCounted == PREDICTION_CLASS["cat"] + PREDICTION_CLASS["dog"]

\* C23: every /predict request handled with a loaded predictor has one
\* outcome and is counted at most once: uploads that are no image/* part or
\* cannot be opened are the 400 responses and touch no Prometheus counter,
\* every 200 response is one REQUEST_COUNT{success} and every 500 response one
\* REQUEST_COUNT{error}, and PREDICTION_CLASS sums to REQUEST_COUNT{success}.
C23_OneOutcomeCountedOnce ==
    /\ Answered + Len(inflight) = nreq
    /\ REQUEST_COUNT["success"] = served[200]
    /\ REQUEST_COUNT["error"] = served[500]
    /\ PredictionsCounted = REQUEST_COUNT["success"]
    /\ (inflight = <<>>) => served[400] = badSeen

\* C23 as the code has it: no request is counted twice and the class counters
\* sum to the successes, but a 500 response can go uncounted; once all
\* requests have finished, the uncounted 500 responses are as many as the
\* rejectable uploads that were not answered 400.
C23_CountedAtMostOnce ==
    /\ Answered + Len(inflight) = nreq
    /\ REQUEST_COUNT["success"] = served[200]
    /\ REQUEST_COUNT["error"] <= served[500]
    /\ PredictionsCounted = REQUEST_COUNT["success"]
    /\ served[400] <= badSeen
    /\ (inflight = <<>>) => served[500] - REQUEST_COUNT["error"] = badSeen - served[400]

\* the file the startup event hands to the constructor
StartupFile ==
    IF disk["best_model.pt"] # NoFile THEN disk["best_model.pt"] ELSE disk["final_model.pt"]

\* the files train.py writes
Loadable == {save_best(w) : w \in 1..MaxWeights} \cup {save_final(w) : w \in 1..MaxWeights}

\* C24: the startup event loads best_model.pt when that file exists and
\* final_model.pt otherwise; when the load succeeds the predictor is set with
\* the weights of that file and MODEL_LOADED is 1, when it fails the event
\* raises, the predictor stays unset and MODEL_LOADED is 0; at every point the
\* gauge is 1 exactly when the predictor is set.
C24_GaugeTracksPredictor ==
    /\ (MODEL_LOADED = 1) <=> predictor.loaded
    /\ MODEL_LOADED \in {0, 1}
    /\ (appPc = "init") => ~predictor.loaded
    /\ (appPc = "up") =>
          /\ StartupFile \in Loadable
          /\ predictor.loaded /\ predictor.model.weights = StartupFile.state
          /\ ~predictor.model.training
    /\ (appPc = "down") => (StartupFile \notin Loadable /\ ~predictor.loaded)

\* C24 witness: with no best_model.pt the service came up on final_model.pt.
C24_Witness ==
    /\ appPc = "up" /\ disk["best_model.pt"] = NoFile
    /\ predictor.model.weights = disk["final_model.pt"].state /\ MODEL_LOADED = 1

\* C24 witness for the failure: best_model.pt exists but is no checkpoint; the
\* startup event raised although final_model.pt could be loaded.
C24_WitnessFailed ==
    /\ appPc = "down" /\ disk["best_model.pt"] = Garbage
    /\ disk["final_model.pt"] \in Loadable /\ MODEL_LOADED = 0 /\ ~predictor.loaded

\* the largest validation accuracy among the first n epochs, 0 when none
MaxSeen(n) ==
    LET seen == {trainAccs[i] : i \in 1..n} \cup {0}
    IN CHOOSE m \in seen : \A x \in seen : x <= m

\* the loop index i is a strict improvement over every earlier epoch
StrictlyBest(i) == trainAccs[i + 1] > MaxSeen(i)

\* C25: after each epoch best_val_acc is the largest validation accuracy seen
\* so far; best_model.pt has been written in exactly the epochs whose accuracy
\* is strictly greater than every earlier one (no tie, and nothing while the
\* accuracy never exceeds 0); the epoch and val_acc stored in best_model.pt
\* are those of the first epoch that reached the current maximum; and
\* final_model.pt is written once, after the last epoch.
C25_BestCheckpoint ==
    (trainPc # "idle") =>
        /\ best_val_acc = MaxSeen(epoch)
        /\ \A i \in 0..(epoch - 1) :
              (\E k \in 1..Len(bestWrites) : bestWrites[k] = i) <=> StrictlyBest(i)
        /\ \A k \in 1..(Len(bestWrites) - 1) : bestWrites[k] < bestWrites[k + 1]
        /\ \A k \in 1..Len(bestWrites) : bestWrites[k] < epoch
        /\ bestMeta.written <=> (MaxSeen(epoch) > 0)
        /\ bestMeta.written =>
              /\ bestMeta.val_acc = MaxSeen(epoch)
              /\ trainAccs[bestMeta.epoch + 1] = MaxSeen(epoch)
              /\ \A i \in 0..(bestMeta.epoch - 1) : trainAccs[i + 1] < MaxSeen(epoch)
        /\ finalWrites = (IF trainPc = "done" THEN 1 ELSE 0)
        /\ (trainPc = "done") => epoch = Len(trainAccs)

\* C25, the step form: best_val_acc never decreases.
C25_BestNeverDecreases == [][best_val_acc' >= best_val_acc]_vars

\* C25 witness: a finished run whose last epoch ties the best of an earlier
\* one: one write of best_model.pt, for the earlier epoch, and final_model.pt.
C25_Witness ==
    /\ trainPc = "done" /\ epoch = MaxEpochs
    /\ trainAccs[1] > 0 /\ trainAccs[MaxEpochs] = trainAccs[1]
    /\ bestWrites = <<0>> /\ bestMeta.epoch = 0 /\ finalWrites = 1

\* C25 witness: a finished run whose accuracy never exceeded 0 wrote no
\* best_model.pt.
C25_WitnessNothing ==
    /\ trainPc = "done" /\ epoch = MaxEpochs /\ ~bestMeta.written /\ finalWrites = 1

\* 1 when b, else 0
Bit(b) == IF b THEN 1 ELSE 0

\* what one call on the monitor did to the counters, by the call made
MonitorStep ==
    (monCalls' # monCalls) =>
        /\ (monLast'.op = "record_request") =>
              /\ monMetrics'.request_count = monMetrics.request_count + 1
              /\ monMetrics'.errors = monMetrics.errors + Bit(~monLast'.success)
              /\ \A c \in Classes :
                    monMetrics'.predictions[c] = monMetrics.predictions[c]
                        + Bit(monLast'.success /\ monLast'.predicted_class = c)
        /\ (monLast'.op = "get_metrics") =>
              /\ monMetrics' = monMetrics
              /\ monOut'.metrics = monMetrics
              /\ (monMetrics.request_count = 0) =>
                    (monOut'.error_rate = ZeroRate /\ monOut'.average_inference_time = ZeroRate)
        /\ (monLast'.op = "reset_metrics") => monMetrics' = ZeroMetrics

\* errors + predictions[cat] + predictions[dog] <= request_count
MonitorBalance ==
    monMetrics.errors + monMetrics.predictions["cat"] + monMetrics.predictions["dog"]
        <= monMetrics.request_count

\* C26: over any sequence of record_request, get_metrics and reset_metrics
\* calls, request_count grows by 1 per record_request, errors by 1 exactly on
\* calls with success false, a known class count by 1 exactly on successful
\* calls for that class; errors + predictions[cat] + predictions[dog] never
\* exceeds request_count; get_metrics changes no counter and reports error
\* rate and average 0 while request_count is 0; reset_metrics zeroes all.
C26_MonitorCounters == [](MonitorBalance) /\ [][MonitorStep]_vars

\* C26 witness: three recorded requests, one failed for a known class, one
\* successful for cat and one successful for an unknown class, which is
\* counted in request_count only.
C26_Witness ==
    /\ monMetrics.request_count = 3 /\ monMetrics.errors = 1
    /\ monMetrics.predictions["cat"] = 1 /\ monMetrics.predictions["dog"] = 0
    /\ monLast.op = "record_request" /\ ~monLast.success /\ monLast.predicted_class = "dog"

\* C26 witness: get_metrics on a monitor that was reset after a request.
C26_WitnessReset ==
    /\ monCalls = 3 /\ monLast.op = "get_metrics" /\ monOut.called
    /\ monMetrics = ZeroMetrics /\ monOut.error_rate = ZeroRate

\* the latest wrapped call appended one record, of the kind of its outcome,
\* and the wrapper passed the outcome on
OneRecordOfOutcome ==
    /\ Len(logRes.added) = 1
    /\ (logRes.funcRaised = "") =>
          /\ logRes.added[1].kind = "success"
          /\ logRes.raised = "" /\ logRes.result = logRes.funcResult
    /\ (logRes.funcRaised # "") =>
          /\ logRes.added[1].kind = "failure"
          /\ logRes.raised = logRes.funcRaised

\* C27: each call of a function wrapped by log_prediction appends exactly one
\* record to the request log: a success record when the wrapped call returns,
\* and the wrapper returns the same result; a failure record when it raises,
\* and the wrapper raises the same exception; never both.
C27_OneRecordPerCall ==
    /\ Len(logFile) = logCalls
    /\ logRes.called => OneRecordOfOutcome

\* C27 for wrapped calls that return a dict with a numeric confidence and
\* values json can encode, or raise an Exception: there the claim holds.
C27_OneRecordForPlainCalls ==
    (logRes.called /\ logFunc \in {"full", "raises"}) => OneRecordOfOutcome

\* C27, what holds for every call: at most two records are appended, and a
\* wrapper that returns has appended one success record and passes the result
\* of the wrapped call on.
C27_ReturnMeansOneSuccess ==
    logRes.called =>
        /\ Len(logRes.added) <= 2
        /\ (logRes.raised = "") =>
              /\ logRes.funcRaised = "" /\ logRes.result = logRes.funcResult
              /\ Len(logRes.added) = 1 /\ logRes.added[1].kind = "success"

\* the stages a run records
StageNames == {"start", "clean", "scan"}

\* within the run no stage was executed twice, and over the runs no more
\* scans were made than runs started
NoStageTwice ==
    /\ \A st \in StageNames : StageCount(st) <= 1
    /\ \A i \in 1..Len(stages) : stages[i] \in StageNames
    /\ scans <= runs
    /\ cls = 1

\* a failed run executes nothing more: the only step is the start of a new run
FailedIsFinal ==
    (pc = "failed" /\ runs' = runs) =>
        /\ pc' = "failed" /\ stages' = stages /\ scans' = scans
        /\ tree' = tree /\ files' = files /\ err' = err

\* C28: within one preprocess_dataset run no stage is executed a second time:
\* a class is scanned at most once and its split attempted at most once,
\* nothing is normalized twice, and after the first fatal error no further
\* stage of that run executes.
C28_NoStageRetried == [](NoStageTwice) /\ [][FailedIsFinal]_vars

\* C28 witness: the second run failed in the split of the first class after
\* one scan of its own; two runs made two scans.
C28_Witness ==
    /\ pc = "failed" /\ runs = 2 /\ err.type = "NameError"
    /\ stages = <<"start", "clean", "scan">> /\ scans = 2

====
